---- MODULE Spec2Model ----
(***************************************************************************)
(* Model of the query-intelligence core of mysql_mcp_server:               *)
(*   - the safety gate (_validate_query_safety),                           *)
(*   - the validation pipeline and one-pass self-correction                *)
(*     (HealthcareQueryValidator, QuerySelfCorrection),                    *)
(*   - the cleaning of the drafting oracle's output (_clean_sql_response), *)
(*   - the request paths that turn a question into executed SQL            *)
(*     (answer_database_question, _stream_database_question,               *)
(*      handle_database_question) and failure guidance.                    *)
(* Strings are sequences of one-character strings, so that substring,      *)
(* prefix, case and trimming behave as Python's str methods do.  The       *)
(* backquote character is written "BQ".                                    *)
(***************************************************************************)
EXTENDS Integers, Sequences, FiniteSets, TLC

(***************************************************************************)
(* Bounds of the model                                                     *)
(***************************************************************************)
\* number of vocabulary tokens concatenated into one SQL input
MaxSqlTokens == 3
\* number of vocabulary tokens concatenated into one raw oracle response
MaxRawTokens == 2

(***************************************************************************)
(* Python str primitives over sequences of characters                      *)
(***************************************************************************)
LowerChars == <<"a","b","c","d","e","f","g","h","i","j","k","l","m",
                "n","o","p","q","r","s","t","u","v","w","x","y","z">>
UpperChars == <<"A","B","C","D","E","F","G","H","I","J","K","L","M",
                "N","O","P","Q","R","S","T","U","V","W","X","Y","Z">>
Digits == {"0","1","2","3","4","5","6","7","8","9"}

Range(f) == {f[i] : i \in DOMAIN f}

\* str.upper() and str.lower() as maps over the letters
UpperOf == [c \in Range(LowerChars) |-> UpperChars[CHOOSE i \in 1..26 : LowerChars[i] = c]]
LowerOf == [c \in Range(UpperChars) |-> LowerChars[CHOOSE i \in 1..26 : UpperChars[i] = c]]

\* str.upper() on one character
UpperChar(c) == IF c \in DOMAIN UpperOf THEN UpperOf[c] ELSE c

\* str.lower() on one character
LowerChar(c) == IF c \in DOMAIN LowerOf THEN LowerOf[c] ELSE c

Upper(s) == [i \in 1..Len(s) |-> UpperChar(s[i])]
Lower(s) == [i \in 1..Len(s) |-> LowerChar(s[i])]

SpaceChars == {" ", "\n", "\t"}
IdentStartChars == Range(LowerChars) \cup Range(UpperChars) \cup {"_"}
WordChars == IdentStartChars \cup Digits

\* \s of the re module / the characters str.strip() removes
IsSpace(c) == c \in SpaceChars
\* \w of the re module
IsWord(c) == c \in WordChars
\* [a-zA-Z_]
IsIdentStart(c) == c \in IdentStartChars

StartsWith(s, p) == Len(p) <= Len(s) /\ SubSeq(s, 1, Len(p)) = p
EndsWith(s, p) == Len(p) <= Len(s) /\ SubSeq(s, Len(s) - Len(p) + 1, Len(s)) = p
\* p in s
Contains(s, p) == \E i \in 1..(Len(s) - Len(p) + 1) : SubSeq(s, i, i + Len(p) - 1) = p

\* index of the first occurrence of p in s, 0 when there is none (str.find + 1)
Find(s, p) ==
    IF Contains(s, p)
    THEN CHOOSE i \in 1..(Len(s) - Len(p) + 1) :
            /\ SubSeq(s, i, i + Len(p) - 1) = p
            /\ \A j \in 1..(i - 1) : SubSeq(s, j, j + Len(p) - 1) # p
    ELSE 0

\* str.lstrip(), str.rstrip(), str.strip()
LStrip(s) ==
    IF \A i \in 1..Len(s) : IsSpace(s[i]) THEN <<>>
    ELSE SubSeq(s, CHOOSE i \in 1..Len(s) :
                       ~IsSpace(s[i]) /\ \A j \in 1..(i - 1) : IsSpace(s[j]), Len(s))
RStrip(s) ==
    IF \A i \in 1..Len(s) : IsSpace(s[i]) THEN <<>>
    ELSE SubSeq(s, 1, CHOOSE i \in 1..Len(s) :
                       ~IsSpace(s[i]) /\ \A j \in (i + 1)..Len(s) : IsSpace(s[j]))
Strip(s) == LStrip(RStrip(s))

\* str.rstrip(ch) for a single character ch
RStripChar(s, ch) ==
    IF \A i \in 1..Len(s) : s[i] = ch THEN <<>>
    ELSE SubSeq(s, 1, CHOOSE i \in 1..Len(s) :
                       s[i] # ch /\ \A j \in (i + 1)..Len(s) : s[j] = ch)

\* s.split(sep)[1]: the text between the first and the second occurrence of sep
\* (only used where sep occurs in s)
SplitSecond(s, sep) ==
    LET rest == SubSeq(s, Find(s, sep) + Len(sep), Len(s))
    IN  IF Contains(rest, sep) THEN SubSeq(rest, 1, Find(rest, sep) - 1) ELSE rest

\* s.split(sep)[0]
SplitFirst(s, sep) ==
    IF Contains(s, sep) THEN SubSeq(s, 1, Find(s, sep) - 1) ELSE s

\* s.split('\n') as a sequence of lines
RECURSIVE SplitLines(_)
SplitLines(s) ==
    IF Contains(s, <<"\n">>)
    THEN <<SubSeq(s, 1, Find(s, <<"\n">>) - 1)>>
         \o SplitLines(SubSeq(s, Find(s, <<"\n">>) + 1, Len(s)))
    ELSE <<s>>

(***************************************************************************)
(* A matcher for the regular expressions of the source.  A pattern is a    *)
(* sequence of items; re.IGNORECASE is applied to literals.                *)
(*   [k |-> "lit", v |-> chars]   a literal                                *)
(*   [k |-> "ws",  min |-> n]     \s* (n = 0) or \s+ (n = 1)               *)
(*   [k |-> "ident"]              [a-zA-Z_]\w*                             *)
(*   [k |-> "word"]               \w+                                      *)
(***************************************************************************)
Lit(v) == [k |-> "lit", v |-> v, min |-> 0]
Ws(n) == [k |-> "ws", v |-> <<>>, min |-> n]
Ident == [k |-> "ident", v |-> <<>>, min |-> 1]
WordPlus == [k |-> "word", v |-> <<>>, min |-> 1]

RECURSIVE MatchAt(_, _, _, _)
MatchAt(s, i, pat, n) ==
    IF n > Len(pat) THEN TRUE
    ELSE LET it == pat[n] IN
         CASE it.k = "lit" ->
                /\ i + Len(it.v) - 1 <= Len(s)
                /\ Upper(SubSeq(s, i, i + Len(it.v) - 1)) = Upper(it.v)
                /\ MatchAt(s, i + Len(it.v), pat, n + 1)
           [] it.k = "ws" ->
                \E m \in it.min..(Len(s) - i + 1) :
                    /\ \A j \in i..(i + m - 1) : IsSpace(s[j])
                    /\ MatchAt(s, i + m, pat, n + 1)
           [] it.k = "ident" ->
                \E m \in 1..(Len(s) - i + 1) :
                    /\ IsIdentStart(s[i])
                    /\ \A j \in (i + 1)..(i + m - 1) : IsWord(s[j])
                    /\ MatchAt(s, i + m, pat, n + 1)
           [] it.k = "word" ->
                \E m \in 1..(Len(s) - i + 1) :
                    /\ \A j \in i..(i + m - 1) : IsWord(s[j])
                    /\ MatchAt(s, i + m, pat, n + 1)

\* re.search(pat, s, re.IGNORECASE) is not None
ReSearch(pat, s) == \E i \in 1..(Len(s) + 1) : MatchAt(s, i, pat, 1)

\* \b at the boundary between positions i-1 and i of s
WordBoundary(s, i) ==
    LET left == i > 1 /\ i - 1 <= Len(s) /\ IsWord(s[i - 1])
        right == i >= 1 /\ i <= Len(s) /\ IsWord(s[i])
    IN  left # right

\* positions where \bword\b matches in s (case as given)
WordMatches(s, w) ==
    {i \in 1..(Len(s) - Len(w) + 1) :
        /\ SubSeq(s, i, i + Len(w) - 1) = w
        /\ WordBoundary(s, i)
        /\ WordBoundary(s, i + Len(w))}

(***************************************************************************)
(* The safety gate: QueryIntelligenceService._validate_query_safety        *)
(***************************************************************************)
allowed_starts == << <<"S","E","L","E","C","T">>, <<"S","H","O","W">>,
        <<"D","E","S","C","R","I","B","E">>, <<"D","E","S","C">>, <<"E","X","P","L","A","I","N">> >>
forbidden_keywords == << <<"I","N","S","E","R","T">>, <<"U","P","D","A","T","E">>,
        <<"D","E","L","E","T","E">>, <<"D","R","O","P">>, <<"A","L","T","E","R">>,
                         <<"C","R","E","A","T","E">>, <<"T","R","U","N","C","A","T","E">>,
                         <<"G","R","A","N","T">>, <<"R","E","V","O","K","E">> >>

\* any(sql_upper.startswith(start) for start in allowed_starts)
HasAllowedStart(sql_upper) ==
    \E i \in DOMAIN allowed_starts : StartsWith(sql_upper, allowed_starts[i])

\* Faulty variant: the forbidden-keyword loop runs before the allowed-verb check.
ValidateQuerySafetyKeywordsFirst(sql_query) ==
    LET sql_upper == Strip(Upper(sql_query)) IN
    IF \E i \in DOMAIN forbidden_keywords : Contains(sql_upper, forbidden_keywords[i])
    THEN [ok |-> FALSE, error |-> "forbidden_keyword"]
    ELSE IF ~HasAllowedStart(sql_upper)
    THEN [ok |-> FALSE, error |-> "not_allowed_start"]
    ELSE IF Contains(sql_query, <<";">>) /\ ~EndsWith(RStrip(sql_query), <<";">>)
    THEN [ok |-> FALSE, error |-> "multiple_statements"]
    ELSE [ok |-> TRUE, error |-> "none"]

\* _validate_query_safety: ok = returned without raising; error = which
\* ValueError was raised
ValidateQuerySafety(sql_query) ==
    LET sql_upper == Strip(Upper(sql_query)) IN
    IF ~HasAllowedStart(sql_upper)
    THEN [ok |-> FALSE, error |-> "not_allowed_start"]
    ELSE IF \E i \in DOMAIN forbidden_keywords : Contains(sql_upper, forbidden_keywords[i])
    THEN [ok |-> FALSE, error |-> "forbidden_keyword"]
    ELSE IF Contains(sql_query, <<";">>) /\ ~EndsWith(RStrip(sql_query), <<";">>)
    THEN [ok |-> FALSE, error |-> "multiple_statements"]
    ELSE [ok |-> TRUE, error |-> "none"]

(***************************************************************************)
(* Cleaning of the oracle's text: _clean_sql_response                      *)
(***************************************************************************)
prefixes_to_remove == << <<"Q","u","e","r","y",":">>, <<"S","Q","L",":">>,
        <<"A","n","s","w","e","r",":">>, <<"R","e","s","u","l","t",":">>,
                         <<"S","E","L","E","C","T",":">>, <<"S","H","O","W",":">>,
                         <<"D","E","S","C","R","I","B","E",":">> >>

\* the <think>...</think> step
CleanThink(r) ==
    IF Contains(r, <<"<","t","h","i","n","k",">">>) /\ Contains(r, <<"<","/","t","h","i","n","k",">">>)
    THEN Strip(SplitSecond(r, <<"<","/","t","h","i","n","k",">">>))
    ELSE r

\* the markdown code block step
CleanFence(r) ==
    IF Contains(r, <<"BQ","BQ","BQ","s","q","l">>)
    THEN SplitFirst(SplitSecond(r, <<"BQ","BQ","BQ","s","q","l">>), <<"BQ","BQ","BQ">>)
    ELSE IF Contains(r, <<"BQ","BQ","BQ">>)
    THEN SplitSecond(r, <<"BQ","BQ","BQ">>)
    ELSE r

\* the loop over prefixes_to_remove, from prefix number n on
RECURSIVE CleanPrefixes(_, _)
CleanPrefixes(r, n) ==
    IF n > Len(prefixes_to_remove) THEN r
    ELSE IF StartsWith(r, prefixes_to_remove[n])
         THEN CleanPrefixes(Strip(SubSeq(r, Len(prefixes_to_remove[n]) + 1, Len(r))), n + 1)
         ELSE CleanPrefixes(r, n + 1)

\* the first line that, stripped, starts with an allowed verb; else the text
CleanFirstStatement(r) ==
    LET lines == SplitLines(r)
        good(i) == LET line == Strip(lines[i])
                   IN  line # <<>> /\ HasAllowedStart(Upper(line))
    IN  IF \E i \in DOMAIN lines : good(i)
        THEN Strip(lines[CHOOSE i \in DOMAIN lines :
                            good(i) /\ \A j \in 1..(i - 1) : ~good(j)])
        ELSE r

CleanSqlResponse(sql_response) ==
    Strip(RStripChar(CleanFirstStatement(CleanPrefixes(CleanFence(CleanThink(sql_response)), 1)), ";"))

(***************************************************************************)
(* HealthcareQueryValidator (query_validation.py)                          *)
(***************************************************************************)
\* Optional[str] = None
None == <<"None">>

\* ValidationResult(level, message, suggestion, auto_correctable, corrected_sql);
\* the message is kept as a tag, the suggestion text is not modelled
ValidationResult(level, msg, auto, corrected) ==
    [level |-> level, msg |-> msg, auto_correctable |-> auto, corrected_sql |-> corrected]

sensitive_columns == << <<"n","o","_","k","t","p">>,
        <<"n","o","_","r","k","m","_","m","e","d","i","s">>, <<"a","l","a","m","a","t">>,
        <<"n","o","_","t","l","p">>, <<"e","m","a","i","l">>,
                        <<"t","g","l","_","l","a","h","i","r">>,
                        <<"n","a","m","a","_","k","e","l","u","a","r","g","a">>,
                        <<"d","i","a","g","n","o","s","a">> >>

suspicious_patterns ==
    << << Lit(<<"'">>), Ws(0), Lit(<<"O","R">>), Ws(0), Lit(<<"'","1","'">>), Ws(0), Lit(<<"=">>), Ws(0), Lit(<<"'","1","'">>) >>,
       << Lit(<<";">>), Ws(0), Lit(<<"D","R","O","P">>), Ws(1), Lit(<<"T","A","B","L","E">>) >>,
       << Lit(<<"U","N","I","O","N">>), Ws(1), Lit(<<"S","E","L","E","C","T">>) >> >>

\* question words that ask for date ordering
time_words == << <<"r","e","c","e","n","t">>, <<"l","a","t","e","s","t">>,
        <<"t","o","d","a","y">>, <<"y","e","s","t","e","r","d","a","y">> >>

\* _has_table_aliases_without_from
HasTableAliasesWithoutFrom(sql) ==
    LET has_table_columns == ReSearch(<< Lit(<<"S","E","L","E","C","T">>), Ws(1), Ident, Lit(<<".">>), Ident >>, sql)
        has_from == ReSearch(<< Lit(<<"F","R","O","M">>), Ws(1), WordPlus >>, sql)
    IN  has_table_columns /\ ~has_from

\* Faulty variant: a FROM clause is added to the statement
FixMissingFromClauseAddsFrom(sql) == sql \o <<" ","F","R","O","M"," ","t">>

\* _fix_missing_from_clause
FixMissingFromClause(sql) == sql

\* sqlparse.parse(sql)[0] raises IndexError when the text holds no statement
ParseFails(sql) == Strip(sql) = <<>>

\* _validate_syntax
ValidateSyntax(sql) ==
    IF ParseFails(sql)
    THEN << ValidationResult("error", "syntax_error", FALSE, None) >>
    ELSE (IF ~StartsWith(Strip(Upper(sql)), <<"S","E","L","E","C","T">>)
          THEN << ValidationResult("error", "must_start_with_select", FALSE, None) >>
          ELSE << >>)
         \o
         (IF HasTableAliasesWithoutFrom(sql)
          THEN << ValidationResult("critical", "aliases_without_from", TRUE,
                                   FixMissingFromClause(sql)) >>
          ELSE << >>)

\* _extract_table_names: only leaf tokens of parsed.flatten() are visited, and
\* the branch that adds a name asks for token.ttype is None, which no leaf
\* token has: the result is empty
ExtractTableNames(sql) == {}

required_joins == << <<"pasien", "dokter", "reg_periksa">>,
                     <<"dokter", "pemeriksaan", "reg_periksa">>,
                     <<"pasien", "diagnosa", "reg_periksa">> >>

\* _validate_healthcare_joins
ValidateHealthcareJoins(tables) ==
    LET hit(i) == /\ required_joins[i][1] \in tables
                  /\ required_joins[i][2] \in tables
                  /\ required_joins[i][3] \notin tables
        F[i \in 0..Len(required_joins)] ==
            IF i = 0 THEN << >>
            ELSE F[i - 1] \o (IF hit(i)
                              THEN << ValidationResult("warning", "missing_bridge_table", FALSE, None) >>
                              ELSE << >>)
    IN  F[Len(required_joins)]

\* _validate_healthcare_schema: one warning per unrecognized table, then the
\* required-join warnings
ValidateHealthcareSchema(sql) ==
    LET tables == ExtractTableNames(sql)
    IN  [i \in 1..Cardinality(tables) |->
            ValidationResult("warning", "unrecognized_table", FALSE, None)]
        \o ValidateHealthcareJoins(tables)

\* _validate_business_logic
ValidateBusinessLogic(sql, question) ==
    (IF Contains(sql, <<"p","a","s","i","e","n">>) /\ Contains(sql, <<"d","o","k","t","e","r">>) /\ ~Contains(sql, <<"r","e","g","_","p","e","r","i","k","s","a">>)
     THEN << ValidationResult("warning", "patient_doctor_without_registration", FALSE, None) >>
     ELSE << >>)
    \o
    (IF /\ \E i \in DOMAIN time_words : Contains(Lower(question), time_words[i])
        /\ (~Contains(Upper(sql), <<"O","R","D","E","R"," ","B","Y">>) \/ ~Contains(sql, <<"t","g","l","_">>))
     THEN << ValidationResult("info", "time_query_without_date_order", FALSE, None) >>
     ELSE << >>)

\* QueryComplexity.join_count of _analyze_complexity
JoinCount(sql) == Cardinality(WordMatches(Upper(sql), <<"J","O","I","N">>))

\* _validate_performance
ValidatePerformance(sql) ==
    (IF ~Contains(Upper(sql), <<"L","I","M","I","T">>)
     THEN << ValidationResult("warning", "no_limit", TRUE,
                              RStripChar(sql, ";") \o <<" ","L","I","M","I","T"," ","1","0","0">>) >>
     ELSE << >>)
    \o
    (IF JoinCount(sql) > 3
     THEN << ValidationResult("info", "many_joins", FALSE, None) >>
     ELSE << >>)

\* _validate_security
ValidateSecurity(sql) ==
    LET S[i \in 0..Len(sensitive_columns)] ==
            IF i = 0 THEN << >>
            ELSE S[i - 1] \o (IF Contains(Lower(sql), sensitive_columns[i])
                              THEN << ValidationResult("warning", "sensitive_column", FALSE, None) >>
                              ELSE << >>)
        P[i \in 0..Len(suspicious_patterns)] ==
            IF i = 0 THEN << >>
            ELSE P[i - 1] \o (IF ReSearch(suspicious_patterns[i], sql)
                              THEN << ValidationResult("critical", "injection_pattern", FALSE, None) >>
                              ELSE << >>)
    IN  S[Len(sensitive_columns)] \o P[Len(suspicious_patterns)]

\* validate_query: the five stages, in order, none skipped
ValidateQuery(sql, question) ==
    ValidateSyntax(sql) \o ValidateHealthcareSchema(sql) \o ValidateBusinessLogic(sql, question)
    \o ValidatePerformance(sql) \o ValidateSecurity(sql)

(***************************************************************************)
(* QuerySelfCorrection.auto_correct_query                                  *)
(***************************************************************************)
\* truth value of result.corrected_sql
Truthy(corrected_sql) == corrected_sql # None /\ corrected_sql # <<>>

IsCriticalCorrection(r) == r.auto_correctable /\ r.level = "critical"
IsOtherCorrection(r) == r.auto_correctable /\ r.level # "critical"
IsApplicable(r) == Truthy(r.corrected_sql)
IsLimitCorrection(r) ==
    r.auto_correctable /\ Truthy(r.corrected_sql) /\ Contains(r.corrected_sql, <<"L","I","M","I","T">>)

\* the result a "for ...: if ...: ...; break" loop stops at, as a list of
\* zero or one results
FirstOf(results) == IF results = << >> THEN << >> ELSE << Head(results) >>

\* Faulty variant: the LIMIT pass runs whether or not a correction was applied
AutoCorrectQueryLimitAlways(sql, question) ==
    LET validation_results == ValidateQuery(sql, question)
        critical_corrections == SelectSeq(validation_results, IsCriticalCorrection)
        other_corrections == SelectSeq(validation_results, IsOtherCorrection)
        first == FirstOf(SelectSeq(critical_corrections \o other_corrections, IsApplicable))
        limit == FirstOf(SelectSeq(validation_results, IsLimitCorrection))
        corrections_applied == first \o limit
        corrected_sql == IF corrections_applied = << >> THEN sql
                         ELSE corrections_applied[Len(corrections_applied)].corrected_sql
    IN  [sql |-> corrected_sql,
         results |-> IF corrections_applied # << >>
                     THEN ValidateQuery(corrected_sql, question)
                     ELSE validation_results,
         corrections_applied |-> corrections_applied,
         validations |-> IF corrections_applied # << >> THEN 2 ELSE 1]

\* Faulty variant: the results of the first validation are returned even when
\* a correction was applied
AutoCorrectQueryStaleResults(sql, question) ==
    LET validation_results == ValidateQuery(sql, question)
        critical_corrections == SelectSeq(validation_results, IsCriticalCorrection)
        other_corrections == SelectSeq(validation_results, IsOtherCorrection)
        first == FirstOf(SelectSeq(critical_corrections \o other_corrections, IsApplicable))
        limit == IF first = << >>
                 THEN FirstOf(SelectSeq(validation_results, IsLimitCorrection))
                 ELSE << >>
        corrections_applied == first \o limit
        corrected_sql == IF corrections_applied = << >> THEN sql
                         ELSE corrections_applied[Len(corrections_applied)].corrected_sql
    IN  [sql |-> corrected_sql,
         results |-> validation_results,
         corrections_applied |-> corrections_applied,
         validations |-> 1]

\* auto_correct_query: returns (corrected_sql, results); corrections_applied
\* is the local list of the same name, validations counts the calls of
\* validate_query
AutoCorrectQuery(sql, question) ==
    LET validation_results == ValidateQuery(sql, question)
        critical_corrections == SelectSeq(validation_results, IsCriticalCorrection)
        other_corrections == SelectSeq(validation_results, IsOtherCorrection)
        first == FirstOf(SelectSeq(critical_corrections \o other_corrections, IsApplicable))
        limit == IF first = << >>
                 THEN FirstOf(SelectSeq(validation_results, IsLimitCorrection))
                 ELSE << >>
        corrections_applied == first \o limit
        corrected_sql == IF corrections_applied = << >> THEN sql
                         ELSE corrections_applied[Len(corrections_applied)].corrected_sql
    IN  [sql |-> corrected_sql,
         results |-> IF corrections_applied # << >>
                     THEN ValidateQuery(corrected_sql, question)
                     ELSE validation_results,
         corrections_applied |-> corrections_applied,
         validations |-> IF corrections_applied # << >> THEN 2 ELSE 1]

(***************************************************************************)
(* Inputs                                                                  *)
(***************************************************************************)
\* pieces of SQL text the inputs of the gate and the validator are built from
SqlVocab == { <<"S","E","L","E","C","T"," ">>, <<"s","e","l","e","c","t"," ","t",".","a"," ">>,
              <<"c","r","e","a","t","e","d","_","a","t"," ">>, <<"F","R","O","M"," ","t"," ">>,
              <<"L","I","M","I","T"," ","1","0">>, <<";">>,
              <<"D","R","O","P"," ","T","A","B","L","E"," ","t">>, <<" ">> }

\* pieces of text the drafting oracle's responses are built from
RawVocab == { <<"S","E","L","E","C","T"," ","a"," ","F","R","O","M"," ","t">>,
              <<" ","L","I","M","I","T"," ","5">>, <<";">>,
              <<"\n","D","R","O","P"," ","T","A","B","L","E"," ","t">>,
              <<"D","E","L","E","T","E"," ","F","R","O","M"," ","t">>,
              <<"s","e","l","e","c","t"," ","t",".","a">>, <<"S","Q","L",":"," ">>,
              <<"BQ","BQ","BQ">>,
              <<"<","t","h","i","n","k",">","x","<","/","t","h","i","n","k",">">>,
              <<"S","E","L","E","C","T"," ","a",";"," ","S","E","L","E","C","T"," ","1">> }

\* all concatenations of at most n pieces of vocab
RECURSIVE Concats(_, _)
Concats(vocab, n) ==
    IF n = 0 THEN { << >> }
    ELSE LET shorter == Concats(vocab, n - 1)
         IN  shorter \cup { s \o t : s \in shorter, t \in vocab }

\* statements that begin with the other verbs the gate allows, and with none
SqlStatements == { <<"S","H","O","W"," ","T","A","B","L","E","S">>, <<"D","E","S","C"," ","t">>,
                   <<"d","e","s","c","r","i","b","e"," ","t",";">>,
                   <<"E","X","P","L","A","I","N"," ","S","E","L","E","C","T"," ","a"," ","F","R","O","M"," ","t">>,
                   <<"W","I","T","H"," ","c"," ","A","S"," ","(","S","E","L","E","C","T"," ","1",")"," ","S","E","L","E","C","T"," ","1">> }

SqlInputs == Concats(SqlVocab, MaxSqlTokens) \cup SqlStatements
RawResponses == Concats(RawVocab, MaxRawTokens)

\* the questions asked
Questions == { <<"h","o","w"," ","m","a","n","y"," ","u","s","e","r","s">>,
        <<"l","a","t","e","s","t"," ","s","a","l","e","s"," ","b","y"," ","u","s","e","r">> }

(***************************************************************************)
(* State                                                                   *)
(***************************************************************************)
VARIABLES
    \* calls of the gate and of the self-correction on arbitrary text
    fn_sql,             \* the sql argument
    fn_question,        \* the question argument
    fn_gate,            \* outcome of _validate_query_safety(fn_sql)
    fn_ac,              \* outcome of auto_correct_query(fn_sql, fn_question)
    \* one request that turns a question into SQL
    path,               \* "answer" | "http_stream" | "websocket"
    pc,                 \* position of the request in its handler
    question,           \* the question of the request
    validation_enabled, \* query_validator and query_self_correction are set
    schema_context,     \* "unbound" until _get_schema_context has returned
    sql_query,          \* local sql_query (None before drafting)
    validation_results, \* local validation_results
    validation_raised,  \* the try block of step 4.5 ended in its except branch
    gate_passed,        \* SQL texts _validate_query_safety returned normally on
    executed,           \* SQL texts given to the executor (cursor.execute), in order
    error,              \* the exception being handled ("none" when there is none)
    guidance_failure,   \* where _provide_query_guidance failed, if it ran
    query_result,       \* local query_result: the text _execute_sql_safely returned
    response            \* what the caller gets

VARIABLES
    \* the schema cache and the relationship cache of one QueryIntelligenceService
    now,                \* time.time()
    db_schema,          \* the schema the database has
    enable_cache,       \* self.enable_cache
    refresh_on_schema_change, \* CACHE_REFRESH_ON_SCHEMA_CHANGE is 'true'
    schema_cache,       \* self._schema_cache: cache key -> entry
    relationship_cache, \* self._relationship_cache: entries in insertion order
    schema_hash_cache,  \* self._schema_hash_cache
    last_schema_check,  \* self._last_schema_check
    fetch_pc,           \* position of each request in _get_complete_schema_context_cached
    fetch_local,        \* locals of each request's fetch (tables, cache_key)
    running,            \* the request that holds the event loop ("none": the loop is free)
    db_changed,         \* the schema changed after the last completed fetch
    last_fetch,         \* what the most recently completed fetch did and returned
    last_cache_call     \* what the most recent _cache_relationships call did

VARIABLES
    \* one RelationshipGraph and the queries made on it
    nodes,              \* self.nodes (table names)
    edges,              \* self.edges, in insertion order
    adjacency,          \* self.adjacency: table -> list of neighbours
    path_query,         \* the last find_shortest_path call and its result
    join_query          \* the last find_join_path call and its result

VARIABLES
    \* a call of the planner, _analyze_query_requirements
    plan_question,      \* the question argument
    plan_context,       \* the schema_context argument, as its lines
    query_plan          \* the plan returned

VARIABLES
    \* the relationship heuristics applied to the tables of one database
    table_columns,      \* the tables in SHOW TABLES order, each with its DESCRIBE columns
    discovered,         \* what _discover_relationships returned
    potential_joins     \* what _detect_potential_joins returned

VARIABLES
    \* one WebSocketConnectionManager
    active_connections, \* self.active_connections: client_id -> websocket
    user_sessions,      \* self.user_sessions: user_id -> set of client ids, in insertion order
    last_call           \* the last connect or disconnect call

fn_vars == <<fn_sql, fn_question, fn_gate, fn_ac>>
req_vars == <<path, pc, question, validation_enabled, schema_context, sql_query,
              validation_results, validation_raised, gate_passed, executed, error, guidance_failure,
              query_result, response>>
cache_vars == <<now, db_schema, enable_cache, refresh_on_schema_change, schema_cache,
                relationship_cache, schema_hash_cache, last_schema_check, fetch_pc,
                fetch_local, running, db_changed, last_fetch, last_cache_call>>
graph_vars == <<nodes, edges, adjacency, path_query, join_query>>
plan_vars == <<plan_question, plan_context, query_plan>>
disc_vars == <<table_columns, discovered, potential_joins>>
ws_vars == <<active_connections, user_sessions, last_call>>
vars == <<fn_sql, fn_question, fn_gate, fn_ac,
          path, pc, question, validation_enabled, schema_context, sql_query,
          validation_results, validation_raised, gate_passed, executed, error, guidance_failure,
          query_result, response,
          now, db_schema, enable_cache, refresh_on_schema_change, schema_cache,
          relationship_cache, schema_hash_cache, last_schema_check, fetch_pc,
          fetch_local, running, db_changed, last_fetch, last_cache_call,
          nodes, edges, adjacency, path_query, join_query,
          plan_question, plan_context, query_plan,
          table_columns, discovered, potential_joins,
          active_connections, user_sessions, last_call>>

NotCalled == [ok |-> FALSE, error |-> "not_called"]
NoCorrection == [sql |-> None, results |-> << >>, corrections_applied |-> << >>, validations |-> 0]
NoResponse == [kind |-> "none"]
NoResult == [fetched |-> FALSE]

\* no request is in progress
RequestIdle ==
    /\ path = "none" /\ pc = "idle" /\ question = << >>
    /\ validation_enabled = FALSE /\ schema_context = "unbound"
    /\ sql_query = None /\ validation_results = << >> /\ validation_raised = FALSE
    /\ gate_passed = {} /\ executed = << >> /\ error = "none"
    /\ guidance_failure = <<"not_run", 0>> /\ query_result = NoResult /\ response = NoResponse

\* no function call is being examined
FnIdle ==
    /\ fn_sql = None /\ fn_question = << >> /\ fn_gate = NotCalled /\ fn_ac = NoCorrection

NoSchema == [tables |-> << >>, columns |-> "none"]
NoFetch == [outcome |-> "none"]
NoCacheCall == [called |-> FALSE]
NoQuery == [asked |-> FALSE]
NoPlan == [planned |-> FALSE]
NotRun == [ran |-> FALSE]
NoCall == [op |-> "none"]

\* no schema fetch is being examined
CacheIdle ==
    /\ now = 0 /\ db_schema = NoSchema /\ enable_cache = FALSE /\ refresh_on_schema_change = FALSE
    /\ schema_cache = << >> /\ relationship_cache = << >> /\ schema_hash_cache = None
    /\ last_schema_check = 0 /\ fetch_pc = << >> /\ fetch_local = << >> /\ running = "none"
    /\ db_changed = FALSE /\ last_fetch = NoFetch /\ last_cache_call = NoCacheCall

\* no relationship graph is being examined
GraphIdle ==
    /\ nodes = {} /\ edges = << >> /\ adjacency = << >> /\ path_query = NoQuery /\ join_query = NoQuery

\* no call of the planner is being examined
PlanIdle == plan_question = << >> /\ plan_context = << >> /\ query_plan = NoPlan

\* no database is being examined for relationships
DiscIdle == table_columns = << >> /\ discovered = NotRun /\ potential_joins = NotRun

\* no connection manager is being examined
WsIdle == active_connections = << >> /\ user_sessions = << >> /\ last_call = NoCall

(***************************************************************************)
(* SpecSql: the gate and the self-correction applied to any SQL text       *)
(***************************************************************************)
InitSql ==
    /\ fn_sql \in SqlInputs
    /\ fn_question \in Questions
    /\ fn_gate = NotCalled
    /\ fn_ac = NoCorrection
    /\ RequestIdle
    /\ CacheIdle
    /\ GraphIdle
    /\ PlanIdle
    /\ DiscIdle
    /\ WsIdle

\* self._validate_query_safety(fn_sql)
GateCall ==
    /\ fn_sql # None
    /\ fn_gate = NotCalled
    /\ fn_gate' = ValidateQuerySafety(fn_sql)
    /\ UNCHANGED <<fn_sql, fn_question, fn_ac>>
    /\ UNCHANGED <<req_vars, cache_vars, graph_vars, plan_vars, disc_vars, ws_vars>>

\* self.query_self_correction.auto_correct_query(fn_sql, fn_question)
AutoCorrectCall ==
    /\ fn_sql # None
    /\ fn_ac = NoCorrection
    /\ fn_ac' = AutoCorrectQuery(fn_sql, fn_question)
    /\ UNCHANGED <<fn_sql, fn_question, fn_gate>>
    /\ UNCHANGED <<req_vars, cache_vars, graph_vars, plan_vars, disc_vars, ws_vars>>

NextSql == GateCall \/ AutoCorrectCall

SpecSql == InitSql /\ [][NextSql]_vars

(***************************************************************************)
(* Failure guidance: _provide_query_guidance and its helpers               *)
(***************************************************************************)
\* the tables SHOW TABLES lists, in order
DbTables == << "users", "sales" >>

\* where the guidance's own database work fails: nowhere, in get_db_config,
\* in connect, in SHOW TABLES, or in the DESCRIBE of table number n
GuidanceFailures ==
    { <<"none", 0>>, <<"config", 0>>, <<"connect", 0>>, <<"show_tables", 0>> }
    \cup { <<"describe", n>> : n \in DOMAIN DbTables }

\* _analyze_query_error, as the list of the kinds of suggestion it returns
\* over the tables above (users(id, name), sales(id, user_id, amount))
AnalyzeQueryError(q, error_message) ==
    LET question_lower == Lower(q)
        has(w) == Contains(question_lower, w)
        unknown_column ==
            IF error_message = "unknown_column" THEN << "similar_columns" >> ELSE << >>
        revenue ==
            IF has(<<"r","e","v","e","n","u","e">>) \/ has(<<"s","a","l","e","s">>) \/ has(<<"m","o","n","e","y">>) \/ has(<<"a","m","o","u","n","t">>) \/ has(<<"t","o","t","a","l">>)
            THEN << "financial_columns" >> ELSE << >>
        \* no table name holds 'product': the product branch adds nothing
        multi_table ==
            IF \/ (has(<<"u","s","e","r","s">>) /\ has(<<"s","a","l","e","s">>))
               \/ has(<<"b","y">>) \/ has(<<"w","i","t","h">>) \/ has(<<"j","o","i","n">>) \/ has(<<"c","o","n","n","e","c","t">>)
            THEN << "relationships_header", "join_sales_user_id_users_id" >> ELSE << >>
        count ==
            IF has(<<"h","o","w"," ","m","a","n","y">>) \/ has(<<"c","o","u","n","t">>) \/ has(<<"n","u","m","b","e","r"," ","o","f">>)
            THEN << "counting_hint" >> ELSE << >>
        suggestions == unknown_column \o revenue \o multi_table \o count
    IN  IF suggestions = << >> THEN << "be_more_specific", "available_tables" >>
        ELSE suggestions

\* _generate_example_queries over the tables above
GenerateExampleQueries ==
    << "count_users", "show_name_users", "count_sales", "total_user_id_sales" >>

\* Faulty variant: the except branch leaves the suggestion list as it was
ProvideQueryGuidanceNoFallback(q, error_message, fail) ==
    IF fail[1] = "none"
    THEN [suggestions |-> AnalyzeQueryError(q, error_message),
          available_tables |-> DbTables,
          column_hints |-> { DbTables[i] : i \in DOMAIN DbTables },
          example_queries |-> GenerateExampleQueries]
    ELSE [suggestions |-> << >>,
          available_tables |-> IF fail[1] # "describe"
                               THEN << >> ELSE DbTables,
          column_hints |-> IF fail[1] # "describe"
                           THEN {} ELSE { DbTables[i] : i \in 1..(fail[2] - 1) },
          example_queries |-> << >>]

\* _provide_query_guidance: the guidance dict it returns (it has no raising
\* path: the whole body after the dict's creation is inside try/except
\* Exception)
ProvideQueryGuidance(q, error_message, fail) ==
    IF fail[1] = "none"
    THEN [suggestions |-> AnalyzeQueryError(q, error_message),
          available_tables |-> DbTables,
          column_hints |-> { DbTables[i] : i \in DOMAIN DbTables },
          example_queries |-> GenerateExampleQueries]
    ELSE [suggestions |-> << "could_not_analyze_schema" >>,
          available_tables |-> IF fail[1] # "describe"
                               THEN << >> ELSE DbTables,
          column_hints |-> IF fail[1] # "describe"
                           THEN {} ELSE { DbTables[i] : i \in 1..(fail[2] - 1) },
          example_queries |-> << >>]

(***************************************************************************)
(* Spec: one request that turns a question into SQL, on each of the three  *)
(* paths of the server                                                     *)
(***************************************************************************)
Paths == { "answer", "http_stream", "websocket" }
StreamPaths == { "http_stream", "websocket" }

\* the questions a request may carry (the transport accepts the empty one)
RequestQuestions == Questions \cup { << >> }

Init ==
    /\ FnIdle
    /\ path \in Paths
    /\ pc = "schema"
    /\ question \in RequestQuestions
    /\ validation_enabled \in BOOLEAN
    /\ schema_context = "unbound"
    /\ sql_query = None
    /\ validation_results = << >>
    /\ validation_raised = FALSE
    /\ gate_passed = {}
    /\ executed = << >>
    /\ error = "none"
    /\ guidance_failure = <<"not_run", 0>>
    /\ query_result = NoResult
    /\ response = NoResponse
    /\ CacheIdle
    /\ GraphIdle
    /\ PlanIdle
    /\ DiscIdle
    /\ WsIdle

\* handle_database_question: "if not question: send_error; return"
WsQuestionRequired ==
    /\ path = "websocket" /\ pc = "schema" /\ question = << >>
    /\ pc' = "done"
    /\ response' = [kind |-> "stream", events |-> << "error" >>]
    /\ UNCHANGED <<path, question, validation_enabled, schema_context, sql_query,
                   validation_results, validation_raised, gate_passed, executed,
                   error, guidance_failure>>
    /\ UNCHANGED query_result
    /\ UNCHANGED <<fn_vars, cache_vars, graph_vars, plan_vars, disc_vars, ws_vars>>

\* the handler goes on after the check above
Proceeds == path = "websocket" => question # << >>

\* step 1 of answer_database_question, and the schema fetch of the streaming
\* paths: the schema context is obtained
GetSchemaContext ==
    /\ pc = "schema" /\ Proceeds
    /\ schema_context' = "bound"
    /\ pc' = "plan"
    /\ UNCHANGED <<path, question, validation_enabled, sql_query, validation_results,
                   validation_raised, gate_passed, executed, error, guidance_failure, response>>
    /\ UNCHANGED query_result
    /\ UNCHANGED <<fn_vars, cache_vars, graph_vars, plan_vars, disc_vars, ws_vars>>

\* the schema fetch raises (the database cannot be reached or queried)
GetSchemaContextFails ==
    /\ pc = "schema" /\ Proceeds
    /\ error' = "schema_unavailable"
    /\ pc' = "except"
    /\ UNCHANGED <<path, question, validation_enabled, schema_context, sql_query,
                   validation_results, validation_raised, gate_passed, executed,
                   guidance_failure, response>>
    /\ UNCHANGED query_result
    /\ UNCHANGED <<fn_vars, cache_vars, graph_vars, plan_vars, disc_vars, ws_vars>>

\* steps 2 and 3: _analyze_query_requirements and the enhanced context
AnalyzeQueryRequirements ==
    /\ pc = "plan"
    /\ pc' = "draft"
    /\ UNCHANGED <<path, question, validation_enabled, schema_context, sql_query,
                   validation_results, validation_raised, gate_passed, executed,
                   error, guidance_failure, response>>
    /\ UNCHANGED query_result
    /\ UNCHANGED <<fn_vars, cache_vars, graph_vars, plan_vars, disc_vars, ws_vars>>

\* where a path goes once it holds the drafted SQL
AfterDraft == IF path = "answer" THEN "validate" ELSE "stream_exec"

\* _generate_sql_with_ollama: the oracle answers with some text, which is
\* stripped and cleaned; an empty result raises
GenerateSqlWithOllama ==
    /\ pc = "draft"
    /\ \E raw_response \in RawResponses :
          LET cleaned == CleanSqlResponse(Strip(raw_response)) IN
          IF cleaned = << >>
          THEN /\ error' = "empty_sql_generated"
               /\ pc' = "except"
               /\ UNCHANGED sql_query
          ELSE /\ sql_query' = cleaned
               /\ pc' = AfterDraft
               /\ UNCHANGED error
    /\ UNCHANGED <<path, question, validation_enabled, schema_context,
                   validation_results, validation_raised, gate_passed, executed,
                   guidance_failure, response>>
    /\ UNCHANGED query_result
    /\ UNCHANGED <<fn_vars, cache_vars, graph_vars, plan_vars, disc_vars, ws_vars>>

\* _generate_sql_with_ollama: timeout, HTTP error or bad status
GenerateSqlFails ==
    /\ pc = "draft"
    /\ error' = "ollama_failed"
    /\ pc' = "except"
    /\ UNCHANGED <<path, question, validation_enabled, schema_context, sql_query,
                   validation_results, validation_raised, gate_passed, executed,
                   guidance_failure, response>>
    /\ UNCHANGED query_result
    /\ UNCHANGED <<fn_vars, cache_vars, graph_vars, plan_vars, disc_vars, ws_vars>>

\* Faulty variant: the request goes from step 4.5 straight to step 6
AfterValidationSkipsGate(results) == [pc |-> "execute", error |-> "none"]

\* Faulty variant: a critical validation result left after correction aborts the request
AfterValidationBlocking(results) ==
    IF \E i \in DOMAIN results : results[i].level = "critical"
    THEN [pc |-> "except", error |-> "validation_critical"]
    ELSE [pc |-> "gate", error |-> "none"]

\* after step 4.5 the request goes on to the safety gate, whatever the results
AfterValidation(results) == [pc |-> "gate", error |-> "none"]

\* step 4.5: self-correction replaces sql_query and yields the results
ValidateAndCorrect ==
    /\ pc = "validate" /\ validation_enabled
    /\ LET r == AutoCorrectQuery(sql_query, question) IN
          /\ sql_query' = r.sql
          /\ validation_results' = r.results
          /\ pc' = AfterValidation(r.results).pc
          /\ error' = AfterValidation(r.results).error
    /\ UNCHANGED <<path, question, validation_enabled, schema_context,
                   validation_raised, gate_passed, executed, guidance_failure, response>>
    /\ UNCHANGED query_result
    /\ UNCHANGED <<fn_vars, cache_vars, graph_vars, plan_vars, disc_vars, ws_vars>>

\* step 4.5: the try block raises; the except branch logs and goes on
ValidationRaises ==
    /\ pc = "validate" /\ validation_enabled
    /\ validation_raised' = TRUE
    /\ pc' = "gate"
    /\ UNCHANGED <<path, question, validation_enabled, schema_context, sql_query,
                   validation_results, gate_passed, executed, error,
                   guidance_failure, response>>
    /\ UNCHANGED query_result
    /\ UNCHANGED <<fn_vars, cache_vars, graph_vars, plan_vars, disc_vars, ws_vars>>

\* step 4.5 is skipped when no validator is configured
ValidationSkipped ==
    /\ pc = "validate" /\ ~validation_enabled
    /\ pc' = "gate"
    /\ UNCHANGED <<path, question, validation_enabled, schema_context, sql_query,
                   validation_results, validation_raised, gate_passed, executed,
                   error, guidance_failure, response>>
    /\ UNCHANGED query_result
    /\ UNCHANGED <<fn_vars, cache_vars, graph_vars, plan_vars, disc_vars, ws_vars>>

\* step 5: self._validate_query_safety(sql_query)
ValidateSafetyStep ==
    /\ pc = "gate"
    /\ LET verdict == ValidateQuerySafety(sql_query) IN
          IF verdict.ok
          THEN /\ gate_passed' = gate_passed \cup { sql_query }
               /\ pc' = "execute"
               /\ UNCHANGED error
          ELSE /\ error' = verdict.error
               /\ pc' = "except"
               /\ UNCHANGED gate_passed
    /\ UNCHANGED <<path, question, validation_enabled, schema_context, sql_query,
                   validation_results, validation_raised, executed,
                   guidance_failure, response>>
    /\ UNCHANGED query_result
    /\ UNCHANGED <<fn_vars, cache_vars, graph_vars, plan_vars, disc_vars, ws_vars>>

\* sep.join(parts)
RECURSIVE Join(_, _)
Join(parts, sep) ==
    IF parts = << >> THEN << >>
    ELSE IF Len(parts) = 1 THEN parts[1]
    ELSE parts[1] \o sep \o Join(Tail(parts), sep)

\* cursor.description of the query: its column names
ResultColumns == << <<"i","d">>, <<"n","a","m","e">> >>

\* what cursor.fetchall() can give: no row, one row, two rows, a row of
\* NULLs, a row with a line break in a value
ResultRows == { << >>,
                << << <<"1">>, <<"a","n","n">> >> >>,
                << << <<"1">>, <<"a","n","n">> >>, << <<"2">>, <<"b","o","b">> >> >>,
                << << None, None >> >>,
                << << <<"1">>, <<"a","\n","b">> >> >> }

\* str(item) if item is not None else ""
CellText(item) == IF item = None THEN << >> ELSE item

\* the text _execute_sql_safely returns for a query with a result set (the
\* statements the gate lets through all have one)
ResultText(columns, rows) ==
    IF rows # << >>
    THEN Join(<< Join(columns, <<",">>) >>
              \o [i \in DOMAIN rows |->
                     Join([j \in DOMAIN rows[i] |-> CellText(rows[i][j])], <<",">>)],
              <<"\n">>)
    ELSE Join(columns, <<",">>) \o <<"\n","N","o"," ","d","a","t","a"," ","f","o","u","n","d">>

\* _count_rows
CountRows(query_result_text) ==
    LET lines == SplitLines(Strip(query_result_text))
    IN  IF Len(lines) - 1 > 0 THEN Len(lines) - 1 ELSE 0

\* step 6: _execute_sql_safely hands sql_query to cursor.execute and turns
\* the rows fetched into text
ExecuteSqlSafely ==
    /\ pc = "execute"
    /\ executed' = Append(executed, sql_query)
    /\ \E rows \in ResultRows :
          query_result' = [fetched |-> TRUE, rows |-> rows,
                           text |-> ResultText(ResultColumns, rows)]
    /\ pc' = "format"
    /\ UNCHANGED <<path, question, validation_enabled, schema_context, sql_query,
                   validation_results, validation_raised, gate_passed, error,
                   guidance_failure, response>>
    /\ UNCHANGED <<fn_vars, cache_vars, graph_vars, plan_vars, disc_vars, ws_vars>>

\* step 6: _execute_sql_safely raises (connecting or cursor.execute fails)
ExecuteSqlFails ==
    /\ pc = "execute"
    /\ executed' = Append(executed, sql_query)
    /\ error' \in { "execution_error", "unknown_column" }
    /\ pc' = "except"
    /\ UNCHANGED <<path, question, validation_enabled, schema_context, sql_query,
                   validation_results, validation_raised, gate_passed,
                   guidance_failure, response>>
    /\ UNCHANGED query_result
    /\ UNCHANGED <<fn_vars, cache_vars, graph_vars, plan_vars, disc_vars, ws_vars>>

\* step 7: the success response
FormatResponse ==
    /\ pc = "format"
    /\ response' = [kind |-> "returned", success |-> TRUE, question |-> question,
                    sql_query |-> sql_query, data |-> query_result.text,
                    rows_returned |-> CountRows(query_result.text)]
    /\ pc' = "done"
    /\ UNCHANGED <<path, question, validation_enabled, schema_context, sql_query,
                   validation_results, validation_raised, gate_passed, executed,
                   error, guidance_failure>>
    /\ UNCHANGED query_result
    /\ UNCHANGED <<fn_vars, cache_vars, graph_vars, plan_vars, disc_vars, ws_vars>>

\* type(e).__name__ of the exception being handled
ErrorType(e) ==
    CASE e \in { "not_allowed_start", "forbidden_keyword", "multiple_statements" } -> "ValueError"
      [] e \in { "empty_sql_generated", "ollama_failed" } -> "Exception"
      [] OTHER -> "DatabaseError"

\* the except block of answer_database_question: reading the local
\* schema_context before it was assigned raises UnboundLocalError out of the
\* handler; otherwise the failure response is built
HandleError ==
    /\ path = "answer" /\ pc = "except"
    /\ IF schema_context = "unbound"
       THEN /\ response' = [kind |-> "raised", error_type |-> "UnboundLocalError"]
            /\ UNCHANGED guidance_failure
       ELSE \E fail \in GuidanceFailures :
            /\ guidance_failure' = fail
            /\ response' = [kind |-> "returned", success |-> FALSE, question |-> question,
                            error |-> error, error_type |-> ErrorType(error),
                            guidance |-> ProvideQueryGuidance(question, error, fail)]
    /\ pc' = "done"
    /\ UNCHANGED <<path, question, validation_enabled, schema_context, sql_query,
                   validation_results, validation_raised, gate_passed, executed, error>>
    /\ UNCHANGED query_result
    /\ UNCHANGED <<fn_vars, cache_vars, graph_vars, plan_vars, disc_vars, ws_vars>>

\* _stream_sql_execution / stream_sql_execution: the drafted text goes to
\* cursor.execute; a failure there is reported as an event of its own and
\* the handler still completes
StreamSqlExecution ==
    /\ path \in StreamPaths /\ pc = "stream_exec"
    /\ executed' = Append(executed, sql_query)
    /\ \E outcome \in { "sql_complete", "sql_error" } :
          response' = [kind |-> "stream", events |-> << outcome, "complete" >>]
    /\ pc' = "done"
    /\ UNCHANGED <<path, question, validation_enabled, schema_context, sql_query,
                   validation_results, validation_raised, gate_passed, error,
                   guidance_failure>>
    /\ UNCHANGED query_result
    /\ UNCHANGED <<fn_vars, cache_vars, graph_vars, plan_vars, disc_vars, ws_vars>>

\* the except branch of the streaming handlers: one error event
StreamError ==
    /\ path \in StreamPaths /\ pc = "except"
    /\ response' = [kind |-> "stream", events |-> << "error" >>]
    /\ pc' = "done"
    /\ UNCHANGED <<path, question, validation_enabled, schema_context, sql_query,
                   validation_results, validation_raised, gate_passed, executed,
                   error, guidance_failure>>
    /\ UNCHANGED query_result
    /\ UNCHANGED <<fn_vars, cache_vars, graph_vars, plan_vars, disc_vars, ws_vars>>

Next ==
    \/ WsQuestionRequired
    \/ GetSchemaContext
    \/ GetSchemaContextFails
    \/ AnalyzeQueryRequirements
    \/ GenerateSqlWithOllama
    \/ GenerateSqlFails
    \/ ValidateAndCorrect
    \/ ValidationRaises
    \/ ValidationSkipped
    \/ ValidateSafetyStep
    \/ ExecuteSqlSafely
    \/ ExecuteSqlFails
    \/ FormatResponse
    \/ HandleError
    \/ StreamSqlExecution
    \/ StreamError

Spec == Init /\ [][Next]_vars

(***************************************************************************)
(* The schema cache and the relationship cache of QueryIntelligenceService *)
(* (_get_complete_schema_context_cached and its helpers).                  *)
(*                                                                         *)
(* Time is counted in units of 30 minutes: with CACHE_TTL_MINUTES=30 (the  *)
(* default) one TTL is one unit and one hour is two.  The service is       *)
(* configured with MAX_CACHED_RELATIONSHIPS=2 and                          *)
(* ENABLE_RELATIONSHIP_DISCOVERY=true (the default).  An md5               *)
(* digest is modelled by the value it is computed from: the cache keys by  *)
(* the set of table names (the digest of the sorted list), the schema hash *)
(* by the schema itself.  A schema context (the text built by              *)
(* _build_schema_context) is modelled by what it was built from.           *)
(***************************************************************************)
\* self.cache_ttl_minutes * 60 seconds
cache_ttl == 1
\* the 3600 seconds of the fallback hash of _get_schema_hash
hour_length == 2
\* self.max_cached_relationships
max_cached_relationships == 2

\* time.time() is far beyond one TTL when the service starts
StartTime == cache_ttl + 1

\* the requests that run concurrently on the service
Requests == { "r1", "r2" }

\* the schemas the database can have: two with the same tables and different
\* columns, one with another table list
DbSchemas == { [tables |-> << "sales", "users" >>, columns |-> "v1"],
               [tables |-> << "sales", "users" >>, columns |-> "v2"],
               [tables |-> << "users" >>, columns |-> "v1"] }

\* hashlib.md5(json.dumps(sorted(tables)).encode()).hexdigest()
TablesDigest(tables) == Range(tables)

\* cache_key of _get_complete_schema_context_cached
SchemaCacheKey(tables) == << "schema_", TablesDigest(tables) >>

\* _get_schema_hash: the digest of the (table, column, type) rows, or, when
\* that query fails, of the table list and the current hour
SchemaHash(columns_query_fails) ==
    IF columns_query_fails
    THEN << "fallback", db_schema.tables, now \div hour_length >>
    ELSE << "hash", db_schema >>

\* Faulty variant: an entry whose age equals the TTL is still served
EntryFreshInclusive(timestamp) == now - timestamp <= cache_ttl

\* time.time() - cached_data['timestamp'] < (self.cache_ttl_minutes * 60)
EntryFresh(timestamp) == now - timestamp < cache_ttl

\* _should_refresh_cache: the answer, the branch that gave it and the value
\* self._schema_hash_cache has afterwards
ShouldRefreshCache(columns_query_fails) ==
    IF ~enable_cache
    THEN [refresh |-> TRUE, branch |-> "disabled", hash |-> schema_hash_cache]
    ELSE IF now - last_schema_check > cache_ttl
    THEN [refresh |-> TRUE, branch |-> "ttl", hash |-> schema_hash_cache]
    ELSE IF refresh_on_schema_change /\ schema_hash_cache # SchemaHash(columns_query_fails)
    THEN [refresh |-> TRUE, branch |-> "hash", hash |-> SchemaHash(columns_query_fails)]
    ELSE [refresh |-> FALSE, branch |-> "none", hash |-> schema_hash_cache]

\* position of the entry of cache_key in the relationship cache (0: none)
RelIndex(cache, cache_key) ==
    IF \E i \in DOMAIN cache : cache[i].key = cache_key
    THEN CHOOSE i \in DOMAIN cache : cache[i].key = cache_key
    ELSE 0

\* _get_cached_relationships: position of the entry that is served (0: None)
GetCachedRelationships(cache, tables) ==
    LET i == RelIndex(cache, TablesDigest(tables))
    IN  IF ~enable_cache THEN 0
        ELSE IF i # 0 /\ EntryFresh(cache[i].timestamp) THEN i
        ELSE 0

\* min(self._relationship_cache.keys(), key=timestamp): the first entry, in
\* insertion order, of the smallest timestamp
OldestIndex(cache) ==
    CHOOSE i \in DOMAIN cache :
        /\ \A j \in DOMAIN cache : cache[i].timestamp <= cache[j].timestamp
        /\ \A j \in 1..(i - 1) : cache[j].timestamp > cache[i].timestamp

\* del d[key] for the entry at position i
DeleteAt(cache, i) == SubSeq(cache, 1, i - 1) \o SubSeq(cache, i + 1, Len(cache))

\* _cache_relationships: the relationship cache after the call
CacheRelationships(cache, tables, relationships) ==
    LET cache_key == TablesDigest(tables)
        kept == IF Len(cache) >= max_cached_relationships
                THEN DeleteAt(cache, OldestIndex(cache))
                ELSE cache
        entry == [key |-> cache_key, timestamp |-> now,
                  relationships |-> relationships, tables |-> tables]
        i == RelIndex(kept, cache_key)
    IN  IF ~enable_cache THEN cache
        ELSE IF i # 0 THEN [kept EXCEPT ![i] = entry]
        ELSE Append(kept, entry)

\* where a build can fail: DESCRIBE in _build_schema_context (the error
\* propagates), DESCRIBE in _discover_relationships and in
\* _generate_join_paths (both caught there)
BuildFailures == { "none", "describe", "discover", "join_paths" }

\* the context of a single-table schema has no relationship section
NoRelationships == [schema |-> NoSchema, complete |-> TRUE]

\* _discover_relationships: the list found, cut short when DESCRIBE fails
DiscoverRelationships(fail) == [schema |-> db_schema, complete |-> fail # "discover"]

\* _get_relationships_cached: the relationships returned, the cache
\* afterwards and the age of the entry served (-1: none was served)
GetRelationshipsCached(cache, tables, fail) ==
    LET i == GetCachedRelationships(cache, tables)
    IN  IF i # 0
        THEN [relationships |-> cache[i].relationships, cache |-> cache,
              age |-> now - cache[i].timestamp]
        ELSE [relationships |-> DiscoverRelationships(fail),
              cache |-> CacheRelationships(cache, tables, DiscoverRelationships(fail)),
              age |-> -1]

\* _build_schema_context: the context and the relationship cache afterwards
BuildSchemaContext(tables, fail) ==
    LET rel == IF Len(tables) > 1
               THEN GetRelationshipsCached(relationship_cache, tables, fail)
               ELSE [relationships |-> NoRelationships, cache |-> relationship_cache, age |-> -1]
    IN  [context |-> [schema |-> db_schema,
                      relationships |-> rel.relationships,
                      join_paths |-> Len(tables) > 1 => fail # "join_paths"],
         cache |-> rel.cache,
         rel_age |-> rel.age]

\* number of clock advances followed
MaxTicks == 2

NoContext == [schema |-> NoSchema, relationships |-> NoRelationships, join_paths |-> TRUE]
NoLocal == [tables |-> << >>, cache_key |-> << >>, branch |-> "none", refreshed |-> FALSE,
            failed_at |-> "none", before_schema |-> << >>, before_rel |-> << >>]

\* an entry of the caches as they were when the fetch began is gone
Destroyed(before_schema, before_rel, after_schema, after_rel) ==
    \/ \E k \in DOMAIN before_schema : k \notin DOMAIN after_schema
    \/ \E i \in DOMAIN before_rel : RelIndex(after_rel, before_rel[i].key) = 0

\* the record of a fetch that ended
FetchRecord(r, outcome, failed_at, l, payload, entry_ts, served_age, rel_age, found_expired, after_schema, after_rel) ==
    [outcome |-> outcome, failed_at |-> failed_at, db |-> db_schema,
     branch |-> l.branch, refreshed |-> l.refreshed,
     payload |-> payload, entry_ts |-> entry_ts,
     served_age |-> served_age, rel_age |-> rel_age, found_expired |-> found_expired,
     half |-> \E q \in Requests \ {r} : fetch_pc[q] = "clear_relationships",
     destroyed |-> outcome = "error"
                   /\ Destroyed(l.before_schema, l.before_rel, after_schema, after_rel),
     db_changed |-> db_changed]

(***************************************************************************)
(* SpecCache: requests fetch the schema context while the clock advances   *)
(* and the schema of the database changes.  A request gives up the event   *)
(* loop only at an await; the body of _get_complete_schema_context_cached  *)
(* has none, so its steps run without another request in between.  The     *)
(* clock and the schema move between fetches.                              *)
(***************************************************************************)
InitCache ==
    /\ now = StartTime
    /\ db_schema \in DbSchemas
    /\ enable_cache \in BOOLEAN
    /\ refresh_on_schema_change \in BOOLEAN
    /\ schema_cache = << >>
    /\ relationship_cache = << >>
    /\ schema_hash_cache = None
    /\ last_schema_check = 0
    /\ fetch_pc = [r \in Requests |-> "idle"]
    /\ fetch_local = [r \in Requests |-> NoLocal]
    /\ running = "none"
    /\ db_changed = FALSE
    /\ last_fetch = NoFetch
    /\ last_cache_call = NoCacheCall
    /\ FnIdle
    /\ RequestIdle
    /\ GraphIdle
    /\ PlanIdle
    /\ DiscIdle
    /\ WsIdle

\* the event loop is free or held by r
MayRun(r) == running \in { "none", r }

\* Faulty variant: every step of the fetch ends in an await
AwaitFreeNever(p) == FALSE

\* positions of the fetch that are reached and left without an await
AwaitFree(p) == p \in { "clear_relationships", "lookup" }

\* who holds the event loop when a request has moved to position p
Holder(r, p) == IF AwaitFree(p) THEN r ELSE "none"

\* _should_refresh_cache gets as far as the schema hash
HashQueried ==
    enable_cache /\ ~(now - last_schema_check > cache_ttl) /\ refresh_on_schema_change

\* get_db_config, connect or SHOW TABLES raises
FetchShowTablesFails(r) ==
    /\ fetch_pc[r] = "idle" /\ MayRun(r)
    /\ last_fetch' = FetchRecord(r, "error", "show_tables", NoLocal, NoContext, 0, -1, -1, FALSE,
                                 schema_cache, relationship_cache)
    /\ db_changed' = FALSE
    /\ UNCHANGED <<now, db_schema, enable_cache, refresh_on_schema_change, schema_cache,
                   relationship_cache, schema_hash_cache, last_schema_check, fetch_pc,
                   fetch_local, running, last_cache_call>>
    /\ UNCHANGED <<fn_vars, req_vars, graph_vars, plan_vars, disc_vars, ws_vars>>

\* the columns query of _get_schema_hash and the SHOW TABLES of its fallback
\* both raise
FetchHashFails(r) ==
    /\ fetch_pc[r] = "idle" /\ MayRun(r)
    /\ HashQueried
    /\ last_fetch' = FetchRecord(r, "error", "hash_query", NoLocal, NoContext, 0, -1, -1, FALSE,
                                 schema_cache, relationship_cache)
    /\ db_changed' = FALSE
    /\ UNCHANGED <<now, db_schema, enable_cache, refresh_on_schema_change, schema_cache,
                   relationship_cache, schema_hash_cache, last_schema_check, fetch_pc,
                   fetch_local, running, last_cache_call>>
    /\ UNCHANGED <<fn_vars, req_vars, graph_vars, plan_vars, disc_vars, ws_vars>>

\* lines 304-318: SHOW TABLES, the cache key, _should_refresh_cache and, when
\* it says so, self._schema_cache.clear()
FetchBegin(r) ==
    /\ fetch_pc[r] = "idle" /\ MayRun(r)
    /\ \E columns_query_fails \in BOOLEAN :
        /\ columns_query_fails => HashQueried
        /\ LET d == ShouldRefreshCache(columns_query_fails)
               p == IF d.refresh THEN "clear_relationships" ELSE "lookup"
           IN  /\ schema_hash_cache' = d.hash
               /\ schema_cache' = IF d.refresh THEN << >> ELSE schema_cache
               /\ fetch_pc' = [fetch_pc EXCEPT ![r] = p]
               /\ running' = Holder(r, p)
               /\ fetch_local' = [fetch_local EXCEPT ![r] =
                      [tables |-> db_schema.tables,
                       cache_key |-> SchemaCacheKey(db_schema.tables),
                       branch |-> d.branch, refreshed |-> d.refresh,
                       failed_at |-> IF columns_query_fails THEN "hash_query" ELSE "none",
                       before_schema |-> schema_cache,
                       before_rel |-> relationship_cache]]
    /\ UNCHANGED <<now, db_schema, enable_cache, refresh_on_schema_change,
                   relationship_cache, last_schema_check, db_changed, last_fetch,
                   last_cache_call>>
    /\ UNCHANGED <<fn_vars, req_vars, graph_vars, plan_vars, disc_vars, ws_vars>>

\* lines 319-320: self._relationship_cache.clear(); self._last_schema_check = time.time()
FetchClearRelationships(r) ==
    /\ fetch_pc[r] = "clear_relationships" /\ MayRun(r)
    /\ relationship_cache' = << >>
    /\ last_schema_check' = now
    /\ fetch_pc' = [fetch_pc EXCEPT ![r] = "lookup"]
    /\ running' = Holder(r, "lookup")
    /\ UNCHANGED <<now, db_schema, enable_cache, refresh_on_schema_change, schema_cache,
                   schema_hash_cache, fetch_local, db_changed, last_fetch, last_cache_call>>
    /\ UNCHANGED <<fn_vars, req_vars, graph_vars, plan_vars, disc_vars, ws_vars>>

\* lines 323-325: the entry of the cache key is there and within its TTL
CacheHit(cache_key) ==
    /\ enable_cache
    /\ cache_key \in DOMAIN schema_cache
    /\ EntryFresh(schema_cache[cache_key].timestamp)

\* lines 323-327: the cached context is returned
FetchHit(r) ==
    /\ fetch_pc[r] = "lookup" /\ MayRun(r)
    /\ CacheHit(fetch_local[r].cache_key)
    /\ LET l == fetch_local[r]
           e == schema_cache[l.cache_key]
       IN  last_fetch' = FetchRecord(r, "hit", l.failed_at, l, e.context, e.timestamp,
                                     now - e.timestamp, -1, FALSE,
                                     schema_cache, relationship_cache)
    /\ fetch_pc' = [fetch_pc EXCEPT ![r] = "idle"]
    /\ fetch_local' = [fetch_local EXCEPT ![r] = NoLocal]
    /\ running' = "none"
    /\ db_changed' = FALSE
    /\ UNCHANGED <<now, db_schema, enable_cache, refresh_on_schema_change, schema_cache,
                   relationship_cache, schema_hash_cache, last_schema_check, last_cache_call>>
    /\ UNCHANGED <<fn_vars, req_vars, graph_vars, plan_vars, disc_vars, ws_vars>>

\* lines 329-340: the context is built and, with caching enabled, stored;
\* a DESCRIBE of _build_schema_context that raises ends the fetch
FetchBuild(r) ==
    /\ fetch_pc[r] = "lookup" /\ MayRun(r)
    /\ ~CacheHit(fetch_local[r].cache_key)
    /\ \E fail \in BuildFailures :
        LET l == fetch_local[r]
            found_expired == enable_cache /\ l.cache_key \in DOMAIN schema_cache
            b == BuildSchemaContext(l.tables, fail)
            stored == [k \in DOMAIN schema_cache \cup { l.cache_key } |->
                          IF k = l.cache_key
                          THEN [timestamp |-> now, context |-> b.context]
                          ELSE schema_cache[k]]
        IN  IF fail = "describe"
            THEN /\ last_fetch' = FetchRecord(r, "error", "describe", l, NoContext, 0, -1, -1,
                                              found_expired, schema_cache, relationship_cache)
                 /\ UNCHANGED <<schema_cache, relationship_cache>>
            ELSE /\ relationship_cache' = b.cache
                 /\ schema_cache' = IF enable_cache THEN stored ELSE schema_cache
                 /\ last_fetch' = FetchRecord(r, "built",
                                              IF l.failed_at # "none" THEN l.failed_at
                                              ELSE IF Len(l.tables) > 1 /\ b.rel_age = -1 THEN fail
                                              ELSE IF Len(l.tables) > 1 /\ fail = "join_paths" THEN fail
                                              ELSE "none",
                                              l, b.context, now, -1, b.rel_age,
                                              found_expired, schema_cache', relationship_cache')
    /\ fetch_pc' = [fetch_pc EXCEPT ![r] = "idle"]
    /\ fetch_local' = [fetch_local EXCEPT ![r] = NoLocal]
    /\ running' = "none"
    /\ db_changed' = FALSE
    /\ UNCHANGED <<now, db_schema, enable_cache, refresh_on_schema_change,
                   schema_hash_cache, last_schema_check, last_cache_call>>
    /\ UNCHANGED <<fn_vars, req_vars, graph_vars, plan_vars, disc_vars, ws_vars>>

\* the clock advances
Tick ==
    /\ running = "none"
    /\ now < StartTime + MaxTicks
    /\ now' = now + 1
    /\ UNCHANGED <<db_schema, enable_cache, refresh_on_schema_change, schema_cache,
                   relationship_cache, schema_hash_cache, last_schema_check, fetch_pc,
                   fetch_local, running, db_changed, last_fetch, last_cache_call>>
    /\ UNCHANGED <<fn_vars, req_vars, graph_vars, plan_vars, disc_vars, ws_vars>>

\* the schema of the database changes
SchemaChange ==
    /\ running = "none"
    /\ db_schema' \in DbSchemas \ { db_schema }
    /\ db_changed' = TRUE
    /\ UNCHANGED <<now, enable_cache, refresh_on_schema_change, schema_cache,
                   relationship_cache, schema_hash_cache, last_schema_check, fetch_pc,
                   fetch_local, running, last_fetch, last_cache_call>>
    /\ UNCHANGED <<fn_vars, req_vars, graph_vars, plan_vars, disc_vars, ws_vars>>

NextCache ==
    \/ \E r \in Requests : FetchShowTablesFails(r)
    \/ \E r \in Requests : FetchHashFails(r)
    \/ \E r \in Requests : FetchBegin(r)
    \/ \E r \in Requests : FetchClearRelationships(r)
    \/ \E r \in Requests : FetchHit(r)
    \/ \E r \in Requests : FetchBuild(r)
    \/ Tick
    \/ SchemaChange

SpecCache == InitCache /\ [][NextCache]_vars

(***************************************************************************)
(* SpecRelCache: _get_relationships_cached and _cache_relationships called *)
(* for any table list while the clock advances                             *)
(***************************************************************************)
\* the table lists relationships are asked for: three sets of tables, one
\* of them in two orders
RelTableLists == { << "sales", "users" >>, << "users", "sales" >>,
                   << "orders", "users" >>, << "orders", "sales" >> }

\* keys of the entries of a relationship cache
RelKeys(cache) == { cache[i].key : i \in DOMAIN cache }

\* what a call of _cache_relationships(tables, ...) did to the cache
CacheCallRecord(before, after, tables) ==
    LET cache_key == TablesDigest(tables)
        i == RelIndex(before, cache_key)
        evicted == RelKeys(before) \ RelKeys(after)
    IN  [called |-> TRUE,
         cache_key |-> cache_key,
         size_before |-> Len(before),
         size_after |-> Len(after),
         key_present |-> i # 0,
         key_expired |-> i # 0 /\ ~EntryFresh(before[i].timestamp),
         evicted |-> evicted,
         evicted_oldest |-> \A j \in DOMAIN before : before[j].key \in evicted =>
                                \A k \in DOMAIN before : before[j].timestamp <= before[k].timestamp]

InitRelCache ==
    /\ now = StartTime
    /\ db_schema = [tables |-> << "sales", "users" >>, columns |-> "v1"]
    /\ enable_cache \in BOOLEAN
    /\ refresh_on_schema_change = FALSE
    /\ schema_cache = << >>
    /\ relationship_cache = << >>
    /\ schema_hash_cache = None
    /\ last_schema_check = 0
    /\ fetch_pc = [r \in Requests |-> "idle"]
    /\ fetch_local = [r \in Requests |-> NoLocal]
    /\ running = "none"
    /\ db_changed = FALSE
    /\ last_fetch = NoFetch
    /\ last_cache_call = NoCacheCall
    /\ FnIdle
    /\ RequestIdle
    /\ GraphIdle
    /\ PlanIdle
    /\ DiscIdle
    /\ WsIdle

\* self._cache_relationships(tables, relationships)
CacheRelationshipsCall ==
    /\ \E tables \in RelTableLists, fail \in { "none", "discover" } :
        /\ relationship_cache' =
               CacheRelationships(relationship_cache, tables, DiscoverRelationships(fail))
        /\ last_cache_call' = CacheCallRecord(relationship_cache, relationship_cache', tables)
    /\ UNCHANGED <<now, db_schema, enable_cache, refresh_on_schema_change, schema_cache,
                   schema_hash_cache, last_schema_check, fetch_pc, fetch_local, running,
                   db_changed, last_fetch>>
    /\ UNCHANGED <<fn_vars, req_vars, graph_vars, plan_vars, disc_vars, ws_vars>>

\* self._get_relationships_cached(cursor, tables)
GetRelationshipsCachedCall ==
    /\ \E tables \in RelTableLists, fail \in { "none", "discover" } :
        LET g == GetRelationshipsCached(relationship_cache, tables, fail)
        IN  /\ relationship_cache' = g.cache
            /\ last_cache_call' = IF g.age = -1
                                  THEN CacheCallRecord(relationship_cache, g.cache, tables)
                                  ELSE NoCacheCall
    /\ UNCHANGED <<now, db_schema, enable_cache, refresh_on_schema_change, schema_cache,
                   schema_hash_cache, last_schema_check, fetch_pc, fetch_local, running,
                   db_changed, last_fetch>>
    /\ UNCHANGED <<fn_vars, req_vars, graph_vars, plan_vars, disc_vars, ws_vars>>

NextRelCache == CacheRelationshipsCall \/ GetRelationshipsCachedCall \/ Tick

SpecRelCache == InitRelCache /\ [][NextRelCache]_vars

(***************************************************************************)
(* RelationshipGraph (schema_knowledge.py).  An edge is modelled by its    *)
(* two tables; its columns play no part in the searches.                   *)
(***************************************************************************)
\* number of add_relationship calls followed
MaxEdges == 3

\* the tables of the graph
GraphTables == { "A", "B", "C", "D", "pasien" }

\* the tables add_table is called for
NodeChoices == { "A" }

\* the edges add_relationship is called with: the chain A-B, B-C, C-D (the
\* middle edge pointing backwards), a shortcut and an edge to a hub table
EdgeChoices == { [source_table |-> "A", target_table |-> "B"],
                 [source_table |-> "C", target_table |-> "B"],
                 [source_table |-> "C", target_table |-> "D"],
                 [source_table |-> "A", target_table |-> "C"],
                 [source_table |-> "D", target_table |-> "pasien"] }

\* the table lists find_join_path is called with
JoinRequests == { << "A", "D" >>, << "D", "A" >>, << "A", "C", "D" >>,
                  << "C", "D", "pasien" >>, << "B", "D", "B" >>, << "A" >>, << >> }

\* self.adjacency[table]: a defaultdict(list) gives [] for a missing key
Adj(adj, table) == IF table \in DOMAIN adj THEN adj[table] ELSE << >>

\* reading self.adjacency[table] inserts a missing key
Touch(adj, tables) ==
    [t \in DOMAIN adj \cup tables |-> Adj(adj, t)]

\* self.adjacency[table].append(neighbor)
AdjAppend(adj, table, neighbor) ==
    [t \in DOMAIN adj \cup { table } |->
        IF t = table THEN Append(Adj(adj, t), neighbor) ELSE adj[t]]

\* Faulty variant: no reverse entry is added
AdjacencyAfterOneWay(adj, edge) == AdjAppend(adj, edge.source_table, edge.target_table)

\* add_relationship: the adjacency after both appends
AdjacencyAfter(adj, edge) ==
    AdjAppend(AdjAppend(adj, edge.source_table, edge.target_table),
              edge.target_table, edge.source_table)

\* Faulty variant: the end table is not appended to the path
FoundPathWithoutEnd(found, neighbor) == found

\* return path + [neighbor]
FoundPath(found, neighbor) == found \o << neighbor >>

\* the while loop of find_shortest_path
RECURSIVE Bfs(_, _, _, _)
Bfs(adj, queue, visited, end_table) ==
    IF queue = << >> THEN << >>
    ELSE LET current == Head(queue).node
             cur_path == Head(queue).path
             rest == Tail(queue)
             neighbors == Adj(adj, current)
             unvisited == SelectSeq(neighbors, LAMBDA n : n \notin visited \cup { current })
         IN  IF current \in visited THEN Bfs(adj, rest, visited, end_table)
             ELSE IF \E i \in DOMAIN neighbors : neighbors[i] = end_table
             THEN FoundPath(cur_path, end_table)
             ELSE Bfs(adj,
                      rest \o [i \in DOMAIN unvisited |->
                                  [node |-> unvisited[i], path |-> cur_path \o << unvisited[i] >>]],
                      visited \cup { current }, end_table)

\* find_shortest_path
FindShortestPath(adj, start_table, end_table) ==
    IF start_table = end_table THEN << start_table >>
    ELSE Bfs(adj, << [node |-> start_table, path |-> << start_table >>] >>, {}, end_table)

\* the orders in which a Python set can be iterated
Perms(S) ==
    { p \in [1..Cardinality(S) -> S] : \A i, j \in 1..Cardinality(S) : p[i] = p[j] => i = j }

\* the pairs of the two nested for loops, in the order they are visited
Pairs(p1, p2) ==
    [k \in 1..(Len(p1) * Len(p2)) |->
        << p1[((k - 1) \div Len(p2)) + 1], p2[((k - 1) % Len(p2)) + 1] >>]

\* position in self.edges of the first edge between two tables (0: none)
DirectEdge(es, t1, t2) ==
    LET joins(i) == \/ es[i].source_table = t1 /\ es[i].target_table = t2
                    \/ es[i].source_table = t2 /\ es[i].target_table = t1
    IN  IF \E i \in DOMAIN es : joins(i)
        THEN CHOOSE i \in DOMAIN es : joins(i) /\ \A j \in 1..(i - 1) : ~joins(j)
        ELSE 0

\* the nested for loops of find_join_path: best_edge (a position in
\* self.edges, 0 for None) after the pairs from k on; best_distance -1 is
\* float('inf')
RECURSIVE ScanPairs(_, _, _, _, _, _)
ScanPairs(adj, es, pairs, k, best_distance, best_edge) ==
    IF k > Len(pairs) THEN best_edge
    ELSE LET found == FindShortestPath(adj, pairs[k][1], pairs[k][2])
             direct == DirectEdge(es, pairs[k][1], pairs[k][2])
         IN  IF found # << >> /\ (best_distance = -1 \/ Len(found) < best_distance)
             THEN ScanPairs(adj, es, pairs, k + 1, Len(found),
                            IF direct # 0 THEN direct ELSE best_edge)
             ELSE ScanPairs(adj, es, pairs, k + 1, best_distance, best_edge)

\* the while loop of find_join_path: every list of join edges it can end
\* with, each with the tables whose adjacency was read; ended is FALSE for
\* a loop that appends an edge without moving a table and so never ends
RECURSIVE JoinLoop(_, _, _, _, _, _)
JoinLoop(adj, es, connected_tables, remaining_tables, join_edges, touched) ==
    IF remaining_tables = {}
    THEN { [join_edges |-> join_edges, touched |-> touched, ended |-> TRUE] }
    ELSE UNION {
        LET best_edge == ScanPairs(adj, es, Pairs(p1, p2), 1, -1, 0)
            read == touched \cup connected_tables
        IN  IF best_edge = 0
            THEN { [join_edges |-> join_edges, touched |-> read, ended |-> TRUE] }
            ELSE LET e == es[best_edge]
                     moved == IF e.source_table \in remaining_tables THEN { e.source_table }
                              ELSE IF e.target_table \in remaining_tables THEN { e.target_table }
                              ELSE {}
                 IN  IF moved = {}
                     THEN { [join_edges |-> Append(join_edges, e), touched |-> read,
                             ended |-> FALSE] }
                     ELSE JoinLoop(adj, es, connected_tables \cup moved,
                                   remaining_tables \ moved, Append(join_edges, e), read)
        : p1 \in Perms(connected_tables), p2 \in Perms(remaining_tables) }

hub_tables == << "pasien", "reg_periksa" >>

\* Faulty variant: the hub tables are not looked for
StartTableFirst(tables) == tables[1]

\* start_table of find_join_path
StartTable(tables) ==
    IF \E i \in DOMAIN hub_tables : hub_tables[i] \in Range(tables)
    THEN hub_tables[CHOOSE i \in DOMAIN hub_tables :
                        /\ hub_tables[i] \in Range(tables)
                        /\ \A j \in 1..(i - 1) : hub_tables[j] \notin Range(tables)]
    ELSE tables[1]

\* find_join_path: the results it can return
FindJoinPath(adj, es, tables) ==
    IF Len(tables) <= 1 THEN { [join_edges |-> << >>, touched |-> {}, ended |-> TRUE] }
    ELSE JoinLoop(adj, es, { StartTable(tables) }, Range(tables) \ { StartTable(tables) },
                  << >>, {})

(***************************************************************************)
(* SpecGraph: a graph is built by add_table and add_relationship and       *)
(* queried by find_shortest_path and find_join_path                        *)
(***************************************************************************)
InitGraph ==
    /\ nodes = {}
    /\ edges = << >>
    /\ adjacency = << >>
    /\ path_query = NoQuery
    /\ join_query = NoQuery
    /\ FnIdle
    /\ RequestIdle
    /\ CacheIdle
    /\ PlanIdle
    /\ DiscIdle
    /\ WsIdle

\* graph.add_table(table_info)
AddTable ==
    /\ \E t \in NodeChoices : nodes' = nodes \cup { t }
    /\ UNCHANGED <<edges, adjacency, path_query, join_query>>
    /\ UNCHANGED <<fn_vars, req_vars, cache_vars, plan_vars, disc_vars, ws_vars>>

\* graph.add_relationship(edge)
AddRelationship ==
    /\ Len(edges) < MaxEdges
    /\ \E edge \in EdgeChoices :
        /\ edges' = Append(edges, edge)
        /\ adjacency' = AdjacencyAfter(adjacency, edge)
    /\ path_query' = NoQuery
    /\ join_query' = NoQuery
    /\ UNCHANGED nodes
    /\ UNCHANGED <<fn_vars, req_vars, cache_vars, plan_vars, disc_vars, ws_vars>>

\* graph.find_shortest_path(start_table, end_table)
FindShortestPathCall ==
    /\ \E a, b \in GraphTables :
        /\ path_query' = [asked |-> TRUE, start_table |-> a, end_table |-> b,
                          path |-> FindShortestPath(adjacency, a, b)]
        /\ adjacency' = IF a = b THEN adjacency ELSE Touch(adjacency, { a })
    /\ join_query' = NoQuery
    /\ UNCHANGED <<nodes, edges>>
    /\ UNCHANGED <<fn_vars, req_vars, cache_vars, plan_vars, disc_vars, ws_vars>>

\* graph.find_join_path(tables)
FindJoinPathCall ==
    /\ \E tables \in JoinRequests :
        \E res \in FindJoinPath(adjacency, edges, tables) :
            /\ join_query' = [asked |-> TRUE, tables |-> tables, ended |-> res.ended,
                              join_edges |-> res.join_edges]
            /\ adjacency' = Touch(adjacency, res.touched)
    /\ path_query' = NoQuery
    /\ UNCHANGED <<nodes, edges>>
    /\ UNCHANGED <<fn_vars, req_vars, cache_vars, plan_vars, disc_vars, ws_vars>>

NextGraph == AddTable \/ AddRelationship \/ FindShortestPathCall \/ FindJoinPathCall

SpecGraph == InitGraph /\ [][NextGraph]_vars

(***************************************************************************)
(* The planner: QueryIntelligenceService._analyze_query_requirements       *)
(***************************************************************************)
\* number of pieces a question is built from
MaxPlanPieces == 2

\* pieces of text the questions given to the planner are built from
PlanVocab == { <<"h","o","w"," ","m","a","n","y"," ">>, <<"u","s","e","r","s">>, <<"?">>, <<"t","o","t","a","l"," ","s","a","l","e","s"," ">>, <<"b","y"," ","u","s","e","r">>,
               <<"b","r","a","n","d","s">>, <<"c","o","u","n","t"," ">>, <<"p","e","r"," ","d","a","y">>, <<"D","o","c","t","o","r"," ">>, <<"v","i","s","i","t">> }

PlanQuestions == Concats(PlanVocab, MaxPlanPieces)

\* the table lists of the databases the schema context is built for
PlanSchemas == { << <<"u","s","e","r","s">> >>, << <<"u","s","e","r","s">>, <<"s","a","l","e","s">> >>, << <<"B","r","a","n","d","s">>, <<"s","a","l","e","s">> >> }

\* the lines of the schema context _build_schema_context writes for the
\* tables (the sample data and the relationship lines are indented or
\* headed otherwise and are left out)
RECURSIVE TableLines(_)
TableLines(tables) ==
    IF tables = << >> THEN << >>
    ELSE << <<"T","a","b","l","e",":"," ">> \o Head(tables), <<" "," ","-"," ","i","d",":"," ","i","n","t"," ","(","P","R","I",")"," ","(","r","e","q","u","i","r","e","d",")">>, << >> >>
         \o TableLines(Tail(tables))

ContextLines(tables) ==
    << <<"D","a","t","a","b","a","s","e",":"," ","d","b">>, <<"A","v","a","i","l","a","b","l","e"," ","t","a","b","l","e","s",":"," ">> \o Join(tables, <<","," ">>), << >> >>
    \o TableLines(tables)

\* s.replace(old, ''): every occurrence of old is removed, left to right
RECURSIVE RemoveAll(_, _)
RemoveAll(s, old) ==
    IF Contains(s, old)
    THEN SubSeq(s, 1, Find(s, old) - 1)
         \o RemoveAll(SubSeq(s, Find(s, old) + Len(old), Len(s)), old)
    ELSE s

\* the table names read back from the lines of the schema context
ContextTables(lines) ==
    LET table_lines == SelectSeq(lines, LAMBDA line : StartsWith(line, <<"T","a","b","l","e",":"," ">>))
    IN  [i \in DOMAIN table_lines |-> Strip(RemoveAll(table_lines[i], <<"T","a","b","l","e",":"," ">>))]

multi_table_keywords ==
    << <<"j","o","i","n">>, <<"w","i","t","h">>, <<"a","n","d">>, <<"b","y">>, <<"a","c","r","o","s","s">>, <<"b","e","t","w","e","e","n">>, <<"r","e","l","a","t","i","n","g">>,
       <<"c","o","n","n","e","c","t","e","d">>, <<"a","l","o","n","g"," ","w","i","t","h">>, <<"t","o","g","e","t","h","e","r"," ","w","i","t","h">>, <<"i","n","c","l","u","d","i","n","g">>, <<"c","o","m","b","i","n","e","d"," ","w","i","t","h">> >>

\* the indicator categories with their keywords, in the order they are tested
indicator_keywords ==
    << [name |-> "patient_related", keywords |-> << <<"p","a","t","i","e","n","t">>, <<"p","a","s","i","e","n">> >>],
       [name |-> "doctor_related", keywords |-> << <<"d","o","c","t","o","r">>, <<"d","o","k","t","e","r">>, <<"p","h","y","s","i","c","i","a","n">> >>],
       [name |-> "visit_related",
        keywords |-> << <<"v","i","s","i","t">>, <<"p","e","r","i","k","s","a">>, <<"a","p","p","o","i","n","t","m","e","n","t">>, <<"r","e","g","i","s","t","r","a","t","i","o","n">> >>],
       [name |-> "diagnosis_related", keywords |-> << <<"d","i","a","g","n","o","s","i","s">>, <<"d","i","a","g","n","o","s","a">>, <<"d","i","s","e","a","s","e">> >>],
       [name |-> "medication_related",
        keywords |-> << <<"p","r","e","s","c","r","i","p","t","i","o","n">>, <<"m","e","d","i","c","a","t","i","o","n">>, <<"o","b","a","t">>, <<"r","e","s","e","p">> >>],
       [name |-> "user_related", keywords |-> << <<"u","s","e","r">>, <<"c","u","s","t","o","m","e","r">>, <<"o","w","n","e","r">> >>],
       [name |-> "product_related", keywords |-> << <<"p","r","o","d","u","c","t">>, <<"i","t","e","m">>, <<"g","o","o","d","s">> >>],
       [name |-> "transaction_related",
        keywords |-> << <<"o","r","d","e","r">>, <<"s","a","l","e">>, <<"p","u","r","c","h","a","s","e">>, <<"t","r","a","n","s","a","c","t","i","o","n">> >>],
       [name |-> "project_related", keywords |-> << <<"p","r","o","j","e","c","t">>, <<"t","a","s","k">>, <<"a","c","t","i","v","i","t","y">> >>] >>

aggregation_phrases == << <<"t","o","t","a","l">>, <<"s","u","m">>, <<"c","o","u","n","t">>, <<"a","v","e","r","a","g","e">>, <<"m","a","x">>, <<"m","i","n">> >>
grouping_phrases == << <<"b","y">>, <<"p","e","r">>, <<"f","o","r"," ","e","a","c","h">>, <<"g","r","o","u","p">> >>

\* any(keyword in text for keyword in keywords)
AnyIn(keywords, text) == \E i \in DOMAIN keywords : Contains(text, keywords[i])

\* Faulty variant: the connective rule is tested before the two counting rules
ComplexityConnectiveFirst(question_lower, tables, mentioned_tables, relationship_indicators) ==
    IF AnyIn(multi_table_keywords, question_lower)
    THEN [requires_multiple_tables |-> TRUE, complexity |-> "moderate"]
    ELSE IF Len(mentioned_tables) >= 2 \/ Len(relationship_indicators) >= 2
    THEN [requires_multiple_tables |-> TRUE, complexity |-> "complex"]
    ELSE [requires_multiple_tables |-> FALSE, complexity |-> "simple"]

\* the if/elif chain that determines the complexity
Complexity(question_lower, tables, mentioned_tables, relationship_indicators) ==
    IF Len(mentioned_tables) >= 2
    THEN [requires_multiple_tables |-> TRUE, complexity |-> "complex"]
    ELSE IF Len(relationship_indicators) >= 2
    THEN [requires_multiple_tables |-> TRUE, complexity |-> "complex"]
    ELSE IF AnyIn(multi_table_keywords, question_lower)
    THEN [requires_multiple_tables |-> TRUE, complexity |-> "moderate"]
    ELSE IF /\ AnyIn(<< <<"d","o","c","t","o","r">>, <<"d","o","k","t","e","r">> >>, question_lower)
            /\ AnyIn(<< <<"p","a","t","i","e","n","t">>, <<"v","i","s","i","t">>, <<"p","a","s","i","e","n">> >>, question_lower)
    THEN [requires_multiple_tables |-> TRUE, complexity |-> "complex"]
    ELSE IF /\ AnyIn(<< <<"p","a","t","i","e","n","t">>, <<"p","a","s","i","e","n">> >>, question_lower)
            /\ AnyIn(<< <<"d","i","a","g","n","o","s","i","s">>, <<"d","i","a","g","n","o","s","a">> >>, question_lower)
    THEN [requires_multiple_tables |-> TRUE, complexity |-> "complex"]
    ELSE IF /\ AnyIn(aggregation_phrases, question_lower)
            /\ AnyIn(grouping_phrases, question_lower)
    THEN [requires_multiple_tables |-> Len(tables) > 1, complexity |-> "moderate"]
    ELSE [requires_multiple_tables |-> FALSE, complexity |-> "simple"]

\* _analyze_query_requirements (suggested_tables, which no rule reads, is
\* left out of the plan)
QueryRequirements(q, schema_context_lines) ==
    LET question_lower == Lower(q)
        tables == ContextTables(schema_context_lines)
        mentioned_tables == SelectSeq(tables, LAMBDA t : Contains(question_lower, Lower(t)))
        matched == SelectSeq(indicator_keywords, LAMBDA c : AnyIn(c.keywords, question_lower))
        relationship_indicators == [i \in DOMAIN matched |-> matched[i].name]
        decided == Complexity(question_lower, tables, mentioned_tables, relationship_indicators)
    IN  [planned |-> TRUE,
         requires_multiple_tables |-> decided.requires_multiple_tables,
         complexity |-> decided.complexity,
         mentioned_tables |-> mentioned_tables,
         relationship_indicators |-> relationship_indicators]

(***************************************************************************)
(* SpecPlan: the planner applied to a question and a schema context        *)
(***************************************************************************)
InitPlan ==
    /\ plan_question \in PlanQuestions
    /\ \E tables \in PlanSchemas : plan_context = ContextLines(tables)
    /\ query_plan = NoPlan
    /\ FnIdle
    /\ RequestIdle
    /\ CacheIdle
    /\ GraphIdle
    /\ DiscIdle
    /\ WsIdle

\* self._analyze_query_requirements(plan_question, schema_context)
AnalyzeCall ==
    /\ query_plan = NoPlan
    /\ query_plan' = QueryRequirements(plan_question, plan_context)
    /\ UNCHANGED <<plan_question, plan_context>>
    /\ UNCHANGED <<fn_vars, req_vars, cache_vars, graph_vars, disc_vars, ws_vars>>

NextPlan == AnalyzeCall

SpecPlan == InitPlan /\ [][NextPlan]_vars

(***************************************************************************)
(* The relationship heuristics: _discover_relationships and                *)
(* _detect_potential_joins.  A relationship text is modelled by the values *)
(* it is formatted from.                                                   *)
(***************************************************************************)
\* the tables a database can hold, in SHOW TABLES order, each with the
\* column names DESCRIBE gives
TablePool ==
    << [name |-> <<"c","o","m","m","e","n","t","s">>, columns |-> << <<"i","d">>, <<"t","a","s","k","_","i","d">>, <<"u","s","e","r","_","i","d">> >>],
       [name |-> <<"m","e","m","b","e","r","s">>, columns |-> << <<"p","r","o","j","e","c","t","_","i","d">>, <<"u","s","e","r","_","i","d">>, <<"r","o","l","e">> >>],
       [name |-> <<"p","r","o","j","e","c","t","s">>, columns |-> << <<"i","d">>, <<"o","w","n","e","r","_","i","d">>, <<"n","a","m","e">> >>],
       [name |-> <<"s","a","l","e","s">>, columns |-> << <<"i","d">>, <<"u","s","e","r","_","i","d">>, <<"a","m","o","u","n","t">> >>],
       [name |-> <<"t","a","s","k","s">>,
        columns |-> << <<"i","d">>, <<"p","r","o","j","e","c","t","_","i","d">>, <<"u","s","e","r","_","i","d">>, <<"t","i","t","l","e">>, <<"d","o","n","e">> >>],
       [name |-> <<"u","s","e","r">>, columns |-> << <<"i","d">>, <<"n","a","m","e">> >>] >>

\* the tables of the pool at the positions of S, in order
RECURSIVE Picked(_, _)
Picked(S, i) ==
    IF i > Len(TablePool) THEN << >>
    ELSE (IF i \in S THEN << TablePool[i] >> ELSE << >>) \o Picked(S, i + 1)

\* the databases examined: every non-empty choice of tables of the pool
Databases == { Picked(S, 1) : S \in (SUBSET (1..Len(TablePool))) \ { {} } }

\* the concatenation of a sequence of sequences
RECURSIVE Flatten(_)
Flatten(seqs) == IF seqs = << >> THEN << >> ELSE Head(seqs) \o Flatten(Tail(seqs))

\* list(dict.fromkeys(items)): the first occurrence of every item, in order
RECURSIVE Unique(_)
Unique(items) ==
    IF items = << >> THEN << >>
    ELSE LET front == Unique(SubSeq(items, 1, Len(items) - 1))
             last == items[Len(items)]
         IN  IF \E i \in DOMAIN front : front[i] = last THEN front ELSE Append(front, last)

\* items[:n]
Prefix(items, n) == SubSeq(items, 1, IF Len(items) < n THEN Len(items) ELSE n)

\* col.endswith('_id') and col != 'id'
IsForeignKeyColumn(col) == EndsWith(col, <<"_","i","d">>) /\ col # <<"i","d">>

\* the (table, column) pairs of the foreign-key-like columns, in the order
\* the tables and their columns are walked through, each with its base name
\* col.replace('_id', '')
ForeignKeyRefs(tc) ==
    Flatten([i \in DOMAIN tc |->
        LET fks == SelectSeq(tc[i].columns, IsForeignKeyColumn)
        IN  [k \in DOMAIN fks |->
                [table |-> tc[i].name, col |-> fks[k], base_name |-> RemoveAll(fks[k], <<"_","i","d">>)]]])

\* the references of one group, in order
GroupRefs(refs, base_name) == SelectSeq(refs, LAMBDA r : r.base_name = base_name)

\* the keys of id_columns / foreign_key_groups, in insertion order
GroupNames(refs) == Unique([k \in DOMAIN refs |-> refs[k].base_name])

\* the pairs (i, j), i < j, of positions of a list of n items, in the order
\* "for i ..: for .. in [i+1:]" visits them
RECURSIVE PairsFrom(_, _, _)
PairsFrom(i, j, n) ==
    IF i >= n THEN << >>
    ELSE IF j > n THEN PairsFrom(i + 1, i + 2, n)
    ELSE << << i, j >> >> \o PairsFrom(i, j + 1, n)

\* step 1 of _discover_relationships: DIRECT relationships
DirectRelationships(tc) ==
    LET refs == ForeignKeyRefs(tc)
    IN  Flatten([k \in DOMAIN refs |->
            LET targets == SelectSeq(tc, LAMBDA t :
                               /\ Lower(t.name) = Lower(refs[k].base_name)
                               /\ \E c \in DOMAIN t.columns : t.columns[c] = <<"i","d">>)
            IN  [m \in DOMAIN targets |->
                    [kind |-> "DIRECT", table1 |-> refs[k].table, col1 |-> refs[k].col,
                     table2 |-> targets[m].name, col2 |-> <<"i","d">>, note |-> << >>]]])

\* step 2 of _discover_relationships: INDIRECT relationships, one for every
\* pair of references of a group with two or more references
IndirectRelationships(tc) ==
    LET refs == ForeignKeyRefs(tc)
        names == GroupNames(refs)
    IN  Flatten([g \in DOMAIN names |->
            LET references == GroupRefs(refs, names[g])
                pairs == PairsFrom(1, 2, Len(references))
            IN  [p \in DOMAIN pairs |->
                    LET r1 == references[pairs[p][1]]
                        r2 == references[pairs[p][2]]
                    IN  [kind |-> "INDIRECT", table1 |-> r1.table, col1 |-> r1.col,
                         table2 |-> r2.table, col2 |-> r2.col,
                         note |-> IF names[g] = <<"u","s","e","r">> /\ <<"o","w","n","e","r","_","i","d">> \in { r1.col, r2.col }
                                  THEN <<"b","o","t","h"," ","r","e","f","e","r","e","n","c","e"," ","u","s","e","r","s">>
                                  ELSE <<"v","i","a"," ">> \o names[g]]]])

\* step 3 of _discover_relationships: COMPLEX join examples, one for every
\* two neighbouring references of a group
ComplexRelationships(tc) ==
    LET refs == ForeignKeyRefs(tc)
        names == GroupNames(refs)
    IN  Flatten([g \in DOMAIN names |->
            LET references == GroupRefs(refs, names[g])
            IN  [p \in 1..(Len(references) - 1) |->
                    [kind |-> "COMPLEX", table1 |-> references[p].table,
                     col1 |-> references[p].col, table2 |-> references[p + 1].table,
                     col2 |-> references[p + 1].col, note |-> names[g]]]])

\* the number of relationships _discover_relationships returns at most
max_relationships == 8

\* _discover_relationships: a failing DESCRIBE is caught, the list is still
\* empty then
Discovered(tc, describe_fails) ==
    IF describe_fails THEN << >>
    ELSE Prefix(DirectRelationships(tc) \o IndirectRelationships(tc) \o ComplexRelationships(tc),
                max_relationships)

\* step 1 of _detect_potential_joins: a table whose name is the base name,
\* its plural or its singular, and that has a column id
DirectJoins(tc) ==
    LET refs == ForeignKeyRefs(tc)
    IN  Flatten([k \in DOMAIN refs |->
            LET base == Lower(refs[k].base_name)
                targets == SelectSeq(tc, LAMBDA t :
                               /\ \/ Lower(t.name) = base
                                  \/ Lower(t.name) = base \o <<"s">>
                                  \/ Lower(t.name) \o <<"s">> = base
                               /\ \E c \in DOMAIN t.columns : t.columns[c] = <<"i","d">>)
            IN  [m \in DOMAIN targets |->
                    [kind |-> "join", table1 |-> refs[k].table, col1 |-> refs[k].col,
                     table2 |-> targets[m].name, col2 |-> <<"i","d">>, note |-> << >>]]])

\* step 2 of _detect_potential_joins
IndirectJoins(tc) ==
    LET refs == ForeignKeyRefs(tc)
        names == GroupNames(refs)
    IN  Flatten([g \in DOMAIN names |->
            LET table_refs == GroupRefs(refs, names[g])
                pairs == PairsFrom(1, 2, Len(table_refs))
            IN  [p \in DOMAIN pairs |->
                    [kind |-> "join", table1 |-> table_refs[pairs[p][1]].table,
                     col1 |-> table_refs[pairs[p][1]].col,
                     table2 |-> table_refs[pairs[p][2]].table,
                     col2 |-> table_refs[pairs[p][2]].col,
                     note |-> <<"b","o","t","h"," ","r","e","f","e","r","e","n","c","e"," ">> \o names[g]]]])

\* step 4 of _detect_potential_joins: the columns that name a user or an owner
UserJoins(tc) ==
    LET refs == SelectSeq(ForeignKeyRefs(tc), LAMBDA r :
                    Contains(Lower(r.col), <<"u","s","e","r">>) \/ Contains(Lower(r.col), <<"o","w","n","e","r">>))
        pairs == PairsFrom(1, 2, Len(refs))
    IN  [p \in DOMAIN pairs |->
            [kind |-> "join", table1 |-> refs[pairs[p][1]].table, col1 |-> refs[pairs[p][1]].col,
             table2 |-> refs[pairs[p][2]].table, col2 |-> refs[pairs[p][2]].col,
             note |-> <<"b","o","t","h"," ","a","r","e"," ","u","s","e","r"," ","r","e","f","e","r","e","n","c","e","s">>]]

\* step 3 of _detect_potential_joins: "Table '..' appears to link ..", the
\* flag of a likely junction table
JunctionFlags(tc) ==
    LET flagged == SelectSeq(tc, LAMBDA t :
                       Len(SelectSeq(t.columns, IsForeignKeyColumn)) >= 2)
    IN  [k \in DOMAIN flagged |->
            [kind |-> "junction", table1 |-> flagged[k].name, col1 |-> << >>,
             table2 |-> << >>, col2 |-> << >>,
             note |-> LET fks == SelectSeq(flagged[k].columns, IsForeignKeyColumn)
                      IN  Join([i \in DOMAIN fks |-> RemoveAll(fks[i], <<"_","i","d">>)], <<","," ">>)]]

\* the number of joins _detect_potential_joins returns at most
max_potential_joins == 5

\* _detect_potential_joins
DetectPotentialJoins(tc) ==
    Prefix(Unique(DirectJoins(tc) \o IndirectJoins(tc) \o UserJoins(tc) \o JunctionFlags(tc)),
           max_potential_joins)

(***************************************************************************)
(* SpecDiscover: the two heuristics applied to the tables of a database    *)
(***************************************************************************)
InitDiscover ==
    /\ table_columns \in Databases
    /\ discovered = NotRun
    /\ potential_joins = NotRun
    /\ FnIdle
    /\ RequestIdle
    /\ CacheIdle
    /\ GraphIdle
    /\ PlanIdle
    /\ WsIdle

\* self._discover_relationships(cursor, tables)
DiscoverCall ==
    /\ discovered = NotRun
    /\ \E describe_fails \in BOOLEAN :
          discovered' = [ran |-> TRUE, failed |-> describe_fails,
                         relationships |-> Discovered(table_columns, describe_fails)]
    /\ UNCHANGED <<table_columns, potential_joins>>
    /\ UNCHANGED <<fn_vars, req_vars, cache_vars, graph_vars, plan_vars, ws_vars>>

\* self._detect_potential_joins(tables, column_hints)
DetectJoinsCall ==
    /\ potential_joins = NotRun
    /\ potential_joins' = [ran |-> TRUE, joins |-> DetectPotentialJoins(table_columns)]
    /\ UNCHANGED <<table_columns, discovered>>
    /\ UNCHANGED <<fn_vars, req_vars, cache_vars, graph_vars, plan_vars, ws_vars>>

NextDiscover == DiscoverCall \/ DetectJoinsCall

SpecDiscover == InitDiscover /\ [][NextDiscover]_vars

(***************************************************************************)
(* WebSocketConnectionManager (websocket_server.py).  user_sessions is     *)
(* kept as the list of its items in insertion order, the order disconnect  *)
(* walks through.                                                          *)
(***************************************************************************)
\* the client ids, user ids and websocket objects of the calls
ClientIds == { "c1", "c2" }
UserIds == { "u1", "u2" }
WebSockets == { "w1", "w2" }
\* a user_id that is not given (None), or empty: "if user_id:" skips both
NoUserId == ""

\* position of user_id in user_sessions (0: not a key)
SessionIndex(sessions, user_id) ==
    IF \E i \in DOMAIN sessions : sessions[i].user_id = user_id
    THEN CHOOSE i \in DOMAIN sessions : sessions[i].user_id = user_id
    ELSE 0

\* connect: self.user_sessions after the client is registered under user_id
\* (not given: the sessions are left as they are)
SessionsAfterConnect(sessions, client_id, user_id) ==
    IF user_id = NoUserId THEN sessions
    ELSE LET known == IF SessionIndex(sessions, user_id) = 0
                      THEN Append(sessions, [user_id |-> user_id, clients |-> {}])
                      ELSE sessions
             i == SessionIndex(known, user_id)
         IN  [known EXCEPT ![i].clients = @ \cup { client_id }]

\* disconnect: self.user_sessions after the loop, which stops at the first
\* user whose set holds the client
SessionsAfterDisconnect(sessions, client_id) ==
    IF \E i \in DOMAIN sessions : client_id \in sessions[i].clients
    THEN LET i == CHOOSE k \in DOMAIN sessions :
                     /\ client_id \in sessions[k].clients
                     /\ \A j \in 1..(k - 1) : client_id \notin sessions[j].clients
             left == sessions[i].clients \ { client_id }
         IN  IF left = {}
             THEN SubSeq(sessions, 1, i - 1) \o SubSeq(sessions, i + 1, Len(sessions))
             ELSE [sessions EXCEPT ![i].clients = left]
    ELSE sessions

\* self.active_connections without client_id
WithoutClient(connections, client_id) ==
    [c \in DOMAIN connections \ { client_id } |-> connections[c]]

InitWs ==
    /\ active_connections = << >>
    /\ user_sessions = << >>
    /\ last_call = NoCall
    /\ FnIdle
    /\ RequestIdle
    /\ CacheIdle
    /\ GraphIdle
    /\ PlanIdle
    /\ DiscIdle

\* manager.connect(websocket, client_id, user_id)
Connect ==
    /\ \E client_id \in ClientIds, user_id \in UserIds \cup { NoUserId }, websocket \in WebSockets :
        /\ active_connections' =
               [c \in DOMAIN active_connections \cup { client_id } |->
                   IF c = client_id THEN websocket ELSE active_connections[c]]
        /\ user_sessions' = SessionsAfterConnect(user_sessions, client_id, user_id)
        /\ last_call' = [op |-> "connect", client_id |-> client_id]
    /\ UNCHANGED <<fn_vars, req_vars, cache_vars, graph_vars, plan_vars, disc_vars>>

\* manager.connect(..): websocket.accept() raises and nothing is registered
ConnectAcceptFails ==
    /\ \E client_id \in ClientIds :
        last_call' = [op |-> "connect_failed", client_id |-> client_id]
    /\ UNCHANGED <<active_connections, user_sessions>>
    /\ UNCHANGED <<fn_vars, req_vars, cache_vars, graph_vars, plan_vars, disc_vars>>

\* manager.disconnect(client_id)
Disconnect ==
    /\ \E client_id \in ClientIds :
        /\ active_connections' = WithoutClient(active_connections, client_id)
        /\ user_sessions' = SessionsAfterDisconnect(user_sessions, client_id)
        /\ last_call' = [op |-> "disconnect", client_id |-> client_id]
    /\ UNCHANGED <<fn_vars, req_vars, cache_vars, graph_vars, plan_vars, disc_vars>>

NextWs == Connect \/ ConnectAcceptFails \/ Disconnect

SpecWs == InitWs /\ [][NextWs]_vars

(***************************************************************************)
(* Claims about the safety gate and the self-correction (SpecSql)          *)
(***************************************************************************)
GateDone == fn_gate # NotCalled
AcDone == fn_ac # NoCorrection

\* the verbs and keywords as the specification lists them
SpecAllowedVerbs == { <<"S","E","L","E","C","T">>, <<"S","H","O","W">>, <<"D","E","S","C","R","I","B","E">>, <<"D","E","S","C">>, <<"E","X","P","L","A","I","N">> }
SpecForbiddenKeywords == { <<"I","N","S","E","R","T">>, <<"U","P","D","A","T","E">>, <<"D","E","L","E","T","E">>, <<"D","R","O","P">>, <<"A","L","T","E","R">>,
                           <<"C","R","E","A","T","E">>, <<"T","R","U","N","C","A","T","E">>, <<"G","R","A","N","T">>, <<"R","E","V","O","K","E">> }

\* the statement, trimmed and upper-cased, starts with an allowed verb
StartsWithAllowedVerb(sql) ==
    \E v \in SpecAllowedVerbs : StartsWith(Strip(Upper(sql)), v)
\* a forbidden keyword occurs as a word of its own (no letter, digit or
\* underscore next to it)
HasStandaloneKeyword(sql) ==
    \E kw \in SpecForbiddenKeywords : WordMatches(Upper(sql), kw) # {}
\* the letters of a forbidden keyword occur, standalone or not
HasKeywordLetters(sql) ==
    \E kw \in SpecForbiddenKeywords : Contains(Upper(sql), kw)
\* a semicolon at a position other than the last character of the statement
\* (blanks after the statement are not counted as characters of it)
HasInnerSemicolon(sql) == \E i \in 1..(Len(RStrip(sql)) - 1) : sql[i] = ";"

\* C3 (as claimed): the gate rejects every statement with a standalone
\* forbidden keyword, and accepts a statement that starts with an allowed
\* verb, has no semicolon and holds the keywords' letters only inside longer
\* identifiers.
C3_StandaloneKeywordOnly ==
    GateDone =>
        /\ HasStandaloneKeyword(fn_sql) => ~fn_gate.ok
        /\ ( /\ StartsWithAllowedVerb(fn_sql)
             /\ ~Contains(fn_sql, <<";">>)
             /\ ~HasStandaloneKeyword(fn_sql) ) => fn_gate.ok

\* C4 (as claimed): the gate rejects every statement with a semicolon at a
\* position other than its final character, and accepts a statement whose
\* only semicolon is its last character and which passes the other rules.
C4_InnerSemicolonRejected ==
    GateDone =>
        /\ HasInnerSemicolon(fn_sql) => ~fn_gate.ok
        /\ ( /\ ~HasInnerSemicolon(fn_sql)
             /\ StartsWithAllowedVerb(fn_sql)
             /\ ~HasKeywordLetters(fn_sql) ) => fn_gate.ok

\* C5: a statement that, trimmed and upper-cased, does not start with SELECT,
\* SHOW, DESCRIBE, DESC or EXPLAIN is rejected, and rejected for that reason
\* whatever keywords or semicolons it holds (the verb check comes first).
C5_AllowedStartFirst ==
    GateDone =>
        (~StartsWithAllowedVerb(fn_sql) =>
            fn_gate = [ok |-> FALSE, error |-> "not_allowed_start"])

\* a statement without allowed verb that also holds a forbidden keyword and
\* an inner semicolon has been rejected for its verb
C5_Witness ==
    /\ GateDone
    /\ ~StartsWithAllowedVerb(fn_sql)
    /\ HasStandaloneKeyword(fn_sql)
    /\ HasInnerSemicolon(fn_sql)
    /\ fn_gate.error = "not_allowed_start"

\* the statement has a LIMIT clause
HasLimitClause(sql) == WordMatches(Upper(sql), <<"L","I","M","I","T">>) # {}

\* C9 (as claimed): SQL without a LIMIT clause comes back with exactly one
\* ' LIMIT 100' appended, SQL with a LIMIT clause comes back unchanged.
\* (The statement terminator the appended clause takes the place of is not
\* held against the claim.)
C9_LimitAppendedOrNoop ==
    AcDone =>
        IF HasLimitClause(fn_sql)
        THEN fn_ac.sql = fn_sql
        ELSE fn_ac.sql = RStripChar(fn_sql, ";") \o <<" ","L","I","M","I","T"," ","1","0","0">>

IsCriticalFix(r) == r.auto_correctable /\ r.level = "critical" /\ Truthy(r.corrected_sql)
IsAnyFix(r) == r.auto_correctable /\ Truthy(r.corrected_sql)

\* C10: one invocation applies at most one correction: the first critical
\* auto-correctable result with a corrected SQL if there is one, otherwise
\* the first auto-correctable result with a corrected SQL, otherwise none;
\* the SQL returned is that correction's SQL (or the input).
C10_AtMostOneCorrection ==
    AcDone =>
        LET results == ValidateQuery(fn_sql, fn_question)
            critical == SelectSeq(results, IsCriticalFix)
            any == SelectSeq(results, IsAnyFix)
            applied == fn_ac.corrections_applied
        IN  /\ Len(applied) <= 1
            /\ critical # << >> => applied = << critical[1] >>
            /\ (critical = << >> /\ any # << >>) => applied = << any[1] >>
            /\ any = << >> => applied = << >>
            /\ fn_ac.sql = IF applied = << >> THEN fn_sql ELSE applied[1].corrected_sql

\* a critical correction was applied although an earlier result of the list
\* was not critical, and the re-validation still reports the auto-correctable
\* missing-LIMIT result, which was not applied
C10_Witness ==
    /\ AcDone
    /\ Len(fn_ac.corrections_applied) = 1
    /\ fn_ac.corrections_applied[1].level = "critical"
    /\ \E i \in DOMAIN fn_ac.results :
          fn_ac.results[i].auto_correctable /\ fn_ac.results[i].msg = "no_limit"
    /\ ~Contains(fn_ac.sql, <<" ","L","I","M","I","T"," ","1","0","0">>)

\* C11: one invocation of auto_correct_query calls validate_query once on its
\* input and a second time exactly when a correction was applied, never more;
\* the result list it returns is validate_query of the SQL it returns, for the
\* same question.
C11_RevalidatedOnce ==
    AcDone =>
        /\ fn_ac.validations \in {1, 2}
        /\ fn_ac.validations = 2 <=> fn_ac.corrections_applied # << >>
        /\ fn_ac.results = ValidateQuery(fn_ac.sql, fn_question)

\* a correction changed the SQL, the second validation ran and its results
\* differ from those of the first
C11_Witness ==
    /\ AcDone
    /\ fn_ac.validations = 2
    /\ fn_ac.sql # fn_sql
    /\ fn_ac.results # ValidateQuery(fn_sql, fn_question)

\* the syntax stage reported that the statement must start with SELECT
MustStartWithReported(results) ==
    \E i \in DOMAIN results : results[i].msg = "must_start_with_select"

\* C25: the syntax stage of the validation reports no 'must start with'
\* error for a statement that begins with SELECT, SHOW, DESCRIBE, DESC or
\* EXPLAIN, and reports one for a statement that begins with anything else.
\* (Appending the LIMIT clause leaves the beginning of a statement as it
\* is; the empty statement begins with no verb and is left out.)
C25_SyntaxStageAllowedVerbs ==
    (AcDone /\ Strip(fn_sql) # << >>) =>
        /\ StartsWithAllowedVerb(fn_sql) => ~MustStartWithReported(ValidateSyntax(fn_sql))
        /\ StartsWithAllowedVerb(fn_ac.sql) => ~MustStartWithReported(fn_ac.results)
        /\ ~StartsWithAllowedVerb(fn_sql) => MustStartWithReported(ValidateSyntax(fn_sql))

GateErrors == { "not_allowed_start", "forbidden_keyword", "multiple_statements" }

\* C1: in answer_database_question the executor is given only the SQL the
\* safety gate has just returned normally on (the post-correction sql_query),
\* at most once; when the gate raises, the executor is never called and the
\* response has success = FALSE.
C1_GateBeforeExecutor ==
    path = "answer" =>
        /\ Len(executed) <= 1
        /\ \A i \in DOMAIN executed :
              executed[i] \in gate_passed /\ executed[i] = sql_query
        /\ error \in GateErrors =>
              /\ executed = << >>
              /\ pc = "done" => (response.kind = "returned" /\ response.success = FALSE)

\* a corrected statement (the LIMIT clause was appended) passed the gate and
\* was executed
C1_Witness ==
    /\ path = "answer" /\ pc = "done"
    /\ validation_results # << >>
    /\ EndsWith(sql_query, <<" ","L","I","M","I","T"," ","1","0","0">>)
    /\ executed = << sql_query >>
    /\ response.success = TRUE

\* C2 (as claimed): on every path no drafted SQL reaches the executor unless
\* the safety gate has passed it, so only statements starting with an
\* allowed verb are executed for a question.
C2_NoPathBypassesGate ==
    \A i \in DOMAIN executed :
        /\ executed[i] \in gate_passed
        /\ StartsWithAllowedVerb(executed[i])

\* C6 (as claimed): answer_database_question never lets an exception out;
\* whatever stage fails, it returns a response with success = FALSE that
\* holds the question, the error message, the error class and guidance.
C6_AlwaysStructuredFailure ==
    (path = "answer" /\ pc = "done") =>
        /\ response.kind = "returned"
        /\ error # "none" =>
              /\ response.success = FALSE
              /\ response.question = question
              /\ response.error = error
              /\ response.error_type = ErrorType(error)
              /\ DOMAIN response.guidance =
                    { "suggestions", "available_tables", "column_hints", "example_queries" }

GuidanceRan == guidance_failure[1] # "not_run"
GuidanceFailed == guidance_failure[1] \notin { "not_run", "none" }

C8_ValidationAdvisory ==
    (path = "answer" /\ pc = "done" /\ sql_query # None) =>
        /\ ValidateQuerySafety(sql_query).ok <=> executed = << sql_query >>
        /\ executed = << >> => error \in GateErrors

\* a statement with a critical result that was not corrected away was executed
C8_Witness ==
    /\ path = "answer" /\ pc = "done"
    /\ \E i \in DOMAIN validation_results : validation_results[i].level = "critical"
    /\ executed = << sql_query >>

(***************************************************************************)
(* Claims about the response metadata (Spec)                               *)
(***************************************************************************)
\* C27: in every success response of answer_database_question
\* rows_returned is the number of rows the executor fetched for the query,
\* 0 when it fetched none.
C27_RowsReturnedIsRowCount ==
    (path = "answer" /\ response.kind = "returned" /\ response.success) =>
        response.rows_returned = Len(query_result.rows)

(***************************************************************************)
(* Claims about the schema cache and the relationship cache (SpecCache)    *)
(***************************************************************************)
FetchServed(f) == f.outcome \in { "hit", "built" }

\* a fetch ends in this step
FetchEnds == \E r \in Requests : fetch_pc[r] = "lookup" /\ fetch_pc'[r] = "idle"

\* C12: with caching enabled, a fetch never serves a schema cache entry or a
\* relationship cache entry whose age has reached the TTL; a context that
\* is not served from the schema cache is built from the database as it is.
C12_NoExpiredEntryServed ==
    (enable_cache /\ FetchServed(last_fetch)) =>
        /\ last_fetch.outcome = "hit" =>
               last_fetch.served_age >= 0 /\ last_fetch.served_age < cache_ttl
        /\ last_fetch.rel_age # -1 => last_fetch.rel_age < cache_ttl
        /\ last_fetch.outcome = "built" =>
               /\ last_fetch.payload.schema = last_fetch.db
               /\ last_fetch.served_age = -1

\* a fetch found the entry of its cache key at the age of one TTL, without a
\* refresh having cleared the caches, and built the context anew
C12_Witness ==
    /\ enable_cache
    /\ last_fetch.outcome = "built"
    /\ last_fetch.found_expired
    /\ ~last_fetch.refreshed
    /\ last_fetch.payload.relationships.schema = last_fetch.db

\* C13: with caching and schema-change detection enabled, a fetch that finds
\* the database with another schema than the fetch before it did does not
\* answer from the cache: it returns a context built from the database as it
\* is, whether or not the TTL has elapsed and whether or not the table list
\* changed.  (Fetches in which a query failed are left out.)
C13_HashChangeRefreshes ==
    [][ ( /\ enable_cache /\ refresh_on_schema_change
          /\ FetchEnds
          /\ FetchServed(last_fetch) /\ last_fetch.failed_at = "none"
          /\ FetchServed(last_fetch') /\ last_fetch'.failed_at = "none"
          /\ last_fetch'.db # last_fetch.db )
        => ( /\ last_fetch'.outcome = "built"
             /\ last_fetch'.payload.schema = last_fetch'.db ) ]_vars

\* C14: with caching enabled, of two consecutive successful fetches with no
\* schema change in between and less than one TTL since the entry of the
\* first was stored, the second is a cache hit that returns the context of
\* the first; so also for the first two fetches of a service.  (Fetches in
\* which a query failed are left out.)
C14_SecondFetchIsHit ==
    [][ ( /\ enable_cache
          /\ FetchEnds
          /\ FetchServed(last_fetch) /\ last_fetch.failed_at = "none"
          /\ FetchServed(last_fetch') /\ last_fetch'.failed_at = "none"
          /\ ~last_fetch'.db_changed
          /\ now - last_fetch.entry_ts < cache_ttl )
        => ( /\ last_fetch'.outcome = "hit"
             /\ last_fetch'.payload = last_fetch.payload ) ]_vars

\* C16: a fetch that ends with an error leaves in both caches every entry
\* that was there when it began: nothing is destroyed before its replacement
\* has been built.
C16_SwapOnFailure ==
    last_fetch.outcome = "error" => ~last_fetch.destroyed

\* the relationships of a context were discovered on another schema than
\* the one its tables were described on
Mixed(context) ==
    /\ context.relationships # NoRelationships
    /\ context.relationships.schema # context.schema

\* C17: no fetch is served a context whose relationships come from another
\* schema than its table descriptions, nor one read while another request
\* had cleared the schema cache and not yet the relationship cache.
C17_NoHalfUpdatedView ==
    FetchServed(last_fetch) => ~Mixed(last_fetch.payload) /\ ~last_fetch.half

\* a request has cleared the schema cache and not yet the relationship cache,
\* which still holds an entry; it holds the event loop, and the other request,
\* served before, cannot run
C17_Witness ==
    /\ enable_cache
    /\ fetch_pc["r1"] = "clear_relationships" /\ running = "r1"
    /\ fetch_pc["r2"] = "idle"
    /\ schema_cache = << >> /\ relationship_cache # << >>
    /\ FetchServed(last_fetch)
    /\ last_fetch.payload.relationships # NoRelationships

(***************************************************************************)
(* Claims about the relationship cache alone (SpecRelCache)                *)
(***************************************************************************)
\* C15: the relationship cache never holds more than
\* max_cached_relationships entries; a call of _cache_relationships evicts
\* an entry only when the cache is full and the key it stores is not in it
\* (when storing would exceed the capacity), and the entry it evicts has the
\* smallest timestamp.
C15_BoundedOldestEviction ==
    /\ Len(relationship_cache) <= max_cached_relationships
    /\ last_cache_call.called =>
        /\ last_cache_call.evicted # {} =>
               /\ last_cache_call.size_before >= max_cached_relationships
               /\ ~last_cache_call.key_present
        /\ last_cache_call.evicted_oldest

(***************************************************************************)
(* Claims about the relationship graph (SpecGraph)                         *)
(***************************************************************************)
\* an edge of the graph joins x and y, in either direction
Joined(x, y) ==
    \E i \in DOMAIN edges :
        \/ edges[i].source_table = x /\ edges[i].target_table = y
        \/ edges[i].source_table = y /\ edges[i].target_table = x

\* the tables at most n hops from a
RECURSIVE ReachWithin(_, _)
ReachWithin(a, n) ==
    IF n = 0 THEN { a }
    ELSE LET near == ReachWithin(a, n - 1)
         IN  near \cup { y \in GraphTables : \E x \in near : Joined(x, y) }

Reachable(a, b) == b \in ReachWithin(a, Cardinality(GraphTables))

\* the least number of hops from a to b, for b reachable from a
Hops(a, b) ==
    CHOOSE n \in 0..Cardinality(GraphTables) :
        /\ b \in ReachWithin(a, n)
        /\ \A m \in 0..(n - 1) : b \notin ReachWithin(a, m)

\* C18: the shortest path from A to B is empty exactly when the one from B
\* to A is, and when they are not empty they have the same length.
C18_PathSymmetry ==
    path_query.asked =>
        LET forward == path_query.path
            backward == FindShortestPath(adjacency, path_query.end_table, path_query.start_table)
        IN  /\ forward = << >> <=> backward = << >>
            /\ forward # << >> => Len(forward) = Len(backward)

\* a path of two hops was found whose first hop runs against the direction
\* of its edge
C18_Witness ==
    /\ path_query.asked
    /\ Len(path_query.path) = 3
    /\ \A i \in DOMAIN edges :
           ~(edges[i].source_table = path_query.path[1] /\ edges[i].target_table = path_query.path[2])

\* C19: for a # b, find_shortest_path(a, b) is empty exactly when b cannot
\* be reached from a over the edges taken in both directions; otherwise it
\* starts with a, ends with b, joins every two consecutive tables by an
\* edge and has the least number of hops; for a = b it is the path << a >>.
C19_ShortestPath ==
    path_query.asked =>
        LET a == path_query.start_table
            b == path_query.end_table
            found == path_query.path
        IN  IF a = b THEN found = << a >>
            ELSE /\ found = << >> <=> ~Reachable(a, b)
                 /\ found # << >> =>
                        /\ found[1] = a /\ found[Len(found)] = b
                        /\ \A i \in 1..(Len(found) - 1) : Joined(found[i], found[i + 1])
                        /\ Len(found) - 1 = Hops(a, b)

\* the end table was reached over the second neighbour of the start table
\* in one hop, although the first neighbour leads to it as well
C19_Witness ==
    /\ path_query.asked
    /\ Len(path_query.path) = 2
    /\ Len(Adj(adjacency, path_query.start_table)) >= 2
    /\ Adj(adjacency, path_query.start_table)[1] # path_query.end_table
    /\ Reachable(Adj(adjacency, path_query.start_table)[1], path_query.end_table)

\* the edges are the chain A-B, B-C, C-D and nothing else
IsChain ==
    /\ Len(edges) = 3
    /\ Joined("A", "B") /\ Joined("B", "C") /\ Joined("C", "D")
    /\ ~Joined("A", "C") /\ ~Joined("A", "D") /\ ~Joined("B", "D")

\* a join edge of the result joins x and y
InJoinPath(x, y) ==
    \E j \in DOMAIN join_query.join_edges :
        LET e == join_query.join_edges[j]
        IN  \/ e.source_table = x /\ e.target_table = y
            \/ e.source_table = y /\ e.target_table = x

\* C20: on the chain A-B, B-C, C-D the join path of {A, D} is the three
\* edges of the chain in the order they are traversed; whenever two
\* requested tables are connected, the join path holds every edge of one of
\* the shortest paths between them.
C20_JoinPathFollowsShortestPath ==
    (join_query.asked /\ Len(join_query.tables) = 2
        /\ join_query.tables[1] # join_query.tables[2]
        /\ Reachable(join_query.tables[1], join_query.tables[2])) =>
        LET a == join_query.tables[1]
            b == join_query.tables[2]
            n == Hops(a, b)
        IN  /\ \E p \in [1..(n + 1) -> GraphTables] :
                   /\ p[1] = a /\ p[n + 1] = b
                   /\ \A i \in 1..n : Joined(p[i], p[i + 1]) /\ InJoinPath(p[i], p[i + 1])
            /\ IsChain /\ { a, b } = { "A", "D" } =>
                   /\ Len(join_query.join_edges) = 3
                   /\ InJoinPath("A", "B") /\ InJoinPath("B", "C") /\ InJoinPath("C", "D")

\* the pairs (table, neighbour) held by the adjacency lists
AdjacencyRelation ==
    UNION { { << t, adjacency[t][i] >> : i \in DOMAIN adjacency[t] } : t \in DOMAIN adjacency }

\* the symmetric closure of the edge list
SymmetricClosure ==
    { << edges[i].source_table, edges[i].target_table >> : i \in DOMAIN edges }
        \cup { << edges[i].target_table, edges[i].source_table >> : i \in DOMAIN edges }

\* the adjacency can be derived from the edges
AdjacencyDerivable == AdjacencyRelation = SymmetricClosure

\* C24: both tables of every edge are keys of nodes, and the adjacency
\* relation is exactly the symmetric closure of the edge list.
C24_EdgesWithinNodes ==
    /\ \A i \in DOMAIN edges :
           edges[i].source_table \in nodes /\ edges[i].target_table \in nodes
    /\ AdjacencyDerivable

\* the two tables of a join edge
Ends(e) == { e.source_table, e.target_table }

\* the table the join path is to start from: a requested hub table, 'pasien'
\* before 'reg_periksa', else the first requested table
RequestedStart(tables) ==
    IF "pasien" \in Range(tables) THEN "pasien"
    ELSE IF "reg_periksa" \in Range(tables) THEN "reg_periksa"
    ELSE tables[1]

\* the tables connected before the k-th join edge is added
ConnectedBefore(tables, join_edges, k) ==
    { RequestedStart(tables) } \cup UNION { Ends(join_edges[j]) : j \in 1..(k - 1) }

ForeignKeyLike(t) ==
    { t.columns[c] : c \in { k \in DOMAIN t.columns :
                              EndsWith(t.columns[k], <<"_","i","d">>) /\ t.columns[k] # <<"i","d">> } }

\* the column name without its '_id' ending
StrippedBase(col) == SubSeq(col, 1, Len(col) - 3)

\* two tables have foreign-key-like columns with the same stripped base name
ShareBase(t1, t2) ==
    \E c1 \in ForeignKeyLike(t1), c2 \in ForeignKeyLike(t2) : StrippedBase(c1) = StrippedBase(c2)

\* the list holds an indirect relationship between the two tables
IndirectlyConnected(relationships, n1, n2) ==
    \E k \in DOMAIN relationships :
        /\ relationships[k].kind = "INDIRECT"
        /\ { relationships[k].table1, relationships[k].table2 } = { n1, n2 }

\* C21: after a relationship discovery whose DESCRIBE calls all succeeded,
\* the list returned holds an indirect relationship for every two distinct
\* tables that have foreign-key-like columns with the same stripped base
\* name, however many other relationships were discovered.
C21_IndirectForEverySharedBase ==
    (discovered.ran /\ ~discovered.failed) =>
        \A i, j \in DOMAIN table_columns :
            (i < j /\ ShareBase(table_columns[i], table_columns[j])) =>
                IndirectlyConnected(discovered.relationships,
                                    table_columns[i].name, table_columns[j].name)

\* the table is flagged as a likely junction table
Flagged(name) ==
    \E k \in DOMAIN potential_joins.joins :
        potential_joins.joins[k].kind = "junction" /\ potential_joins.joins[k].table1 = name

\* C26: a table is flagged as a likely junction table exactly when it has
\* two or more foreign-key-like columns and they are more than half of its
\* columns.
C26_JunctionMoreThanHalf ==
    potential_joins.ran =>
        \A i \in DOMAIN table_columns :
            LET t == table_columns[i]
                fks == Cardinality(ForeignKeyLike(t))
            IN  Flagged(t.name) <=> (fks >= 2 /\ 2 * fks > Len(t.columns))

(***************************************************************************)
(* Claims about the connection manager (SpecWs)                            *)
(***************************************************************************)
\* C30: every client id of a user_sessions set is a key of
\* active_connections, no user_sessions set is empty, and after
\* disconnect(client_id) the client id is in neither map.
C30_SessionsWithinConnections ==
    /\ \A i \in DOMAIN user_sessions :
           /\ user_sessions[i].clients \subseteq DOMAIN active_connections
           /\ user_sessions[i].clients # {}
    /\ last_call.op = "disconnect" =>
           /\ last_call.client_id \notin DOMAIN active_connections
           /\ \A i \in DOMAIN user_sessions : last_call.client_id \notin user_sessions[i].clients

(***************************************************************************)
(* Claims about the planner (SpecPlan)                                     *)
(***************************************************************************)
\* the tables of the schema the context was built for
PlannedSchema == CHOOSE tables \in PlanSchemas : plan_context = ContextLines(tables)

\* the schema tables whose name occurs in the question, whatever the case
MentionedCount ==
    Cardinality({ i \in DOMAIN PlannedSchema :
                    Contains(Lower(plan_question), Lower(PlannedSchema[i])) })

\* the indicator categories a keyword of which occurs in the question
MatchedCategories ==
    { i \in DOMAIN indicator_keywords :
        AnyIn(indicator_keywords[i].keywords, Lower(plan_question)) }

\* a multi-table connective occurs in the question as a word of its own
HasConnectiveWord ==
    \E i \in DOMAIN multi_table_keywords :
        WordMatches(Lower(plan_question), multi_table_keywords[i]) # {}

\* the letters of a multi-table connective occur in the question
HasConnectiveLetters == AnyIn(multi_table_keywords, Lower(plan_question))

\* an aggregation phrase and a grouping phrase occur in the question
HasGroupedAggregation ==
    /\ AnyIn(aggregation_phrases, Lower(plan_question))
    /\ AnyIn(grouping_phrases, Lower(plan_question))

\* C22: a question that mentions two or more schema tables, or matches two
\* or more indicator categories, is planned as multi-table and complex,
\* whatever connective or aggregation phrase it holds as well; 'total sales
\* by user' over the schema {users, sales} is planned as multi-table and
\* moderate or complex.
C22_CountingRulesFirst ==
    query_plan.planned =>
        /\ (MentionedCount >= 2 \/ Cardinality(MatchedCategories) >= 2) =>
               /\ query_plan.requires_multiple_tables
               /\ query_plan.complexity = "complex"
        /\ (plan_question = <<"t","o","t","a","l"," ","s","a","l","e","s"," ","b","y"," ","u","s","e","r">>
                /\ PlannedSchema = << <<"u","s","e","r","s">>, <<"s","a","l","e","s">> >>) =>
               /\ query_plan.requires_multiple_tables
               /\ query_plan.complexity \in { "moderate", "complex" }

\* 'total sales by user' over {users, sales}: one table is mentioned, two
\* categories are matched, and the question holds the connective 'by' and
\* an aggregation with a grouping; the plan is complex
C22_Witness ==
    /\ query_plan.planned
    /\ plan_question = <<"t","o","t","a","l"," ","s","a","l","e","s"," ","b","y"," ","u","s","e","r">>
    /\ PlannedSchema = << <<"u","s","e","r","s">>, <<"s","a","l","e","s">> >>
    /\ MentionedCount = 1 /\ Cardinality(MatchedCategories) = 2
    /\ HasConnectiveWord /\ HasGroupedAggregation
    /\ query_plan.complexity = "complex"

\* C23: a question that mentions at most one schema table, matches at most
\* one indicator category, holds no multi-table connective as a word and
\* does not combine an aggregation phrase with a grouping phrase is planned
\* as single-table and simple; the letters of a connective inside a longer
\* word do not count.
C23_SimpleOtherwise ==
    (query_plan.planned
        /\ MentionedCount <= 1 /\ Cardinality(MatchedCategories) <= 1
        /\ ~HasConnectiveWord /\ ~HasGroupedAggregation) =>
        /\ ~query_plan.requires_multiple_tables
        /\ query_plan.complexity = "simple"

====
